---- MODULE Spec2Model ----
(***************************************************************************)
(* Model of src/03_memory_profiler/SimulatedDataset.py: the synthetic      *)
(* transaction generator (generate_dataset and the functions it calls)     *)
(* and the fraud labelling pass (add_frauds); and of the social-network    *)
(* service src/workshop/service.py with its client                         *)
(* src/04_profile_on_the_fly/social_net.py.                                *)
(*                                                                         *)
(* Spec        one run of generate_dataset, the random draws enumerated    *)
(* SpecFraud   one run of add_frauds on a table generate_dataset returned, *)
(*             the random draws enumerated                                 *)
(* SpecRerun   the script run twice, the draws made by generators with a   *)
(*             state                                                       *)
(* SpecWorkers calls of generate_transactions_table that run at the same   *)
(*             time on the module-level generators                         *)
(* SpecCalls   the generators called on their own with any argument, the   *)
(*             call of generate_transactions_table statement by statement  *)
(* SpecService the start of the service (populate_users) followed by the   *)
(*             requests of the walker serf_social_net                      *)
(*                                                                         *)
(* Units.  Amounts are integers in cents (two decimals, as np.round(.,2)   *)
(* leaves them); a raw amount draw is an integer in mills (1/1000).  A raw *)
(* time-of-day draw is an integer in half seconds, so that int()           *)
(* truncation is visible.  Positions are integer grid points.              *)
(***************************************************************************)
EXTENDS Integers, Sequences, FiniteSets, TLC

VARIABLES
    pc,                       \* position in the script
    n_customers,              \* generate_dataset argument
    n_terminals,              \* generate_dataset argument
    nb_days,                  \* generate_dataset argument
    r,                        \* generate_dataset argument
    customer_profiles_table,  \* function CUSTOMER_ID -> profile record
    terminal_profiles_table,  \* function TERMINAL_ID -> profile record
    customer_transactions,    \* sequence of the per-customer tables built so far
    transactions_df,          \* the transaction table (sequence of rows)
    error,                    \* "none" or the exception that ended the run
    loop_day,                 \* add_frauds: the loop variable `day` of the scenario loops
    compromised_transactions, \* add_frauds: positions of the rows the iteration marks
    nb_frauds_scenario_1,     \* add_frauds: the diagnostic counts
    nb_frauds_scenario_2,
    nb_frauds_scenario_3,
    history,                  \* what the passes of add_frauds have drawn so far
    np_random,                \* state of the module-level generator np.random
    py_random,                \* state of the module-level generator random
    run,                      \* which run of the script this is, and the generator
                              \* states it found
    first_run,                \* what the first run of the script produced
    workers,                  \* the calls of generate_transactions_table in progress
    overlapped,               \* some call made a step while another was in progress
    direct_call,              \* a call of generate_transactions_table made on its own:
                              \* its argument, its local variables, the draws it made
    users,                    \* service.py: the module-level dict id -> User
    startup,                  \* service.py: the position of populate_users
    walker                    \* social_net.py: the position and the local variables
                              \* of serf_social_net

gen_vars == <<n_customers, n_terminals, nb_days, r, customer_profiles_table,
              terminal_profiles_table, customer_transactions>>

fraud_vars == <<loop_day, compromised_transactions, nb_frauds_scenario_1,
                nb_frauds_scenario_2, nb_frauds_scenario_3, history>>

rng_vars == <<np_random, py_random, run, first_run, workers, overlapped, direct_call>>

service_vars == <<users, startup, walker>>

vars == <<pc, transactions_df, error, gen_vars, fraud_vars, rng_vars, service_vars>>

-----------------------------------------------------------------------------
(* Bounds of the enumerated inputs *)

MaxTx == 2
MaxLabelledTx == 4

(* Program constants *)

SecondsPerDay == 86400
StartDate == 1522540800
FraudAmount == 220
NbCompromisedTerminals == 2
TerminalWindow == 28
NbCompromisedCustomers == 60
CustomerWindow == 14
AmountFactor == 5

(* Enumerated values of the random draws and of the call arguments *)

CustomerPositions == {<<0, 0>>, <<3, 4>>}
TerminalPositions == {<<3, 4>>, <<6, 8>>}
MeanAmounts == {500}
MeanNbTxPerDay == {0, 2}
RadiusChoices == {0, 5, 6}
NbDaysChoices == {1, 2}
NbCustomersChoices == {1, 2}
NbTerminalsChoices == {1, 2}
TimeDraws == {-1, 172799, 172800}

-----------------------------------------------------------------------------
(* Helpers *)

Range(f) == {f[x] : x \in DOMAIN f}

SeqsUpTo(S, n) == UNION {[1..k -> S] : k \in 0..n}

RECURSIVE Flatten(_)
Flatten(ss) == IF ss = <<>> THEN <<>> ELSE Head(ss) \o Flatten(Tail(ss))

-----------------------------------------------------------------------------
(* generate_customer_profiles_table / generate_terminal_profiles_table:    *)
(* one record per identifier 0..n-1; the uniform draws are enumerated.     *)

CustomerProfiles ==
    [x_y_customer : CustomerPositions, mean_amount : MeanAmounts,
     mean_nb_tx_per_day : MeanNbTxPerDay]

generate_customer_profiles_table(n, draws) ==
    [customer_id \in 0..(n - 1) |->
        [CUSTOMER_ID |-> customer_id,
         x_y_customer |-> draws[customer_id].x_y_customer,
         mean_amount |-> draws[customer_id].mean_amount,
         std_amount |-> draws[customer_id].mean_amount \div 2,
         mean_nb_tx_per_day |-> draws[customer_id].mean_nb_tx_per_day]]

generate_terminal_profiles_table(n, draws) ==
    [terminal_id \in 0..(n - 1) |->
        [TERMINAL_ID |-> terminal_id, x_y_terminal |-> draws[terminal_id]]]

-----------------------------------------------------------------------------
(* get_list_terminals_within_radius *)

SquaredDist(p, q) == (p[1] - q[1]) * (p[1] - q[1]) + (p[2] - q[2]) * (p[2] - q[2])

DistLessOrEqual(d2, rad) == rad >= 0 /\ d2 <= rad * rad

\* np.sqrt(d2) < rad over the reals, for an integer d2 >= 0 and an integer rad
DistLess(d2, rad) == rad > 0 /\ d2 < rad * rad

\* list(np.where(mask)[0]): the indices i..n-1 where the mask holds, ascending
RECURSIVE np_where(_, _, _)
np_where(mask, n, i) ==
    IF i >= n THEN <<>>
    ELSE (IF mask[i] THEN <<i>> ELSE <<>>) \o np_where(mask, n, i + 1)

get_list_terminals_within_radius(customer_profile, x_y_terminals, rad) ==
    LET n == Cardinality(DOMAIN x_y_terminals)
        mask == [i \in DOMAIN x_y_terminals |->
                    DistLess(SquaredDist(customer_profile.x_y_customer,
                                         x_y_terminals[i]), rad)]
    IN  np_where(mask, n, 0)

-----------------------------------------------------------------------------
(* generate_transactions_table *)

\* int(x) of a float given in half seconds: truncation toward zero
IntTrunc(h) == IF h >= 0 THEN h \div 2 ELSE -((-h) \div 2)

\* np.round(x, decimals=2) of an amount given in mills: cents, half to even
np_round(m) ==
    LET q == m \div 10
        rem == m % 10
    IN  IF rem < 5 THEN q
        ELSE IF rem > 5 THEN q + 1
        ELSE IF q % 2 = 0 THEN q ELSE q + 1

time_kept_closed(time_tx) == (time_tx >= 0) /\ (time_tx < SecondsPerDay)

\* `if (time_tx>0) and (time_tx<86400)`
time_kept(time_tx) == (time_tx > 0) /\ (time_tx < SecondsPerDay)

draw_amount_no_redraw(normal, uniform) == np_round(normal)

\* The amount of one transaction: a negative normal draw is replaced by the
\* uniform draw, then the amount is rounded to cents
draw_amount(normal, uniform) == np_round(IF normal < 0 THEN uniform ELSE normal)

random_choice_index(available_terminals, k) == k

\* random.choice(available_terminals), k the index the generator picks
random_choice(available_terminals, k) == available_terminals[k + 1]

\* The draws one transaction of the inner loop may consume; a draw the code does
\* not make (the amount of a discarded time, the uniform of a non-negative
\* normal, the choice in an empty list) is fixed at 0
TxDraws(customer_profile) ==
    {d \in [time : TimeDraws,
            normal : {-15, 0, customer_profile.mean_amount * 10 + 5},
            uniform : {0, customer_profile.mean_amount * 2 * 10 - 1},
            choice : 0..Len(customer_profile.available_terminals)] :
        /\ (~time_kept(IntTrunc(d.time))) =>
               (d.normal = 0 /\ d.uniform = 0 /\ d.choice = 0)
        /\ time_kept(IntTrunc(d.time)) => d.normal # 0
        /\ d.normal >= 0 => d.uniform = 0
        /\ d.choice < Len(customer_profile.available_terminals) \/ d.choice = 0}

\* np.random.poisson(rate): rate 0 always draws 0
PoissonDraws(rate) == IF rate = 0 THEN {0} ELSE 0..MaxTx

\* The body of `for tx in range(nb_tx)` for the draws dd of one day
RECURSIVE day_transactions(_, _, _)
day_transactions(customer_profile, day, dd) ==
    IF dd = <<>> THEN <<>>
    ELSE
      LET d == Head(dd)
          time_tx == IntTrunc(d.time)
          amount == draw_amount(d.normal, d.uniform)
          terminal_id == random_choice(customer_profile.available_terminals, d.choice)
          kept ==
            IF time_kept(time_tx)
            THEN IF Len(customer_profile.available_terminals) > 0
                 THEN << [TX_TIME_SECONDS |-> time_tx + day * SecondsPerDay,
                          TX_TIME_DAYS |-> day,
                          CUSTOMER_ID |-> customer_profile.CUSTOMER_ID,
                          TERMINAL_ID |-> terminal_id,
                          TX_AMOUNT |-> amount] >>
                 ELSE <<>>
            ELSE <<>>
      IN  kept \o day_transactions(customer_profile, day, Tail(dd))

\* `for day in range(nb_days)`: days day..nb-1, draws[day] the draws of that day
RECURSIVE days_transactions(_, _, _, _)
days_transactions(customer_profile, nb, day, draws) ==
    IF day >= nb THEN <<>>
    ELSE day_transactions(customer_profile, day, draws[day])
         \o days_transactions(customer_profile, nb, day + 1, draws)

\* pd.to_datetime(TX_TIME_SECONDS, unit='s', origin=start_date)
to_datetime(seconds) == StartDate + seconds

\* The table made of the rows: TX_DATETIME is added only to a table that has rows
transactions_table(rows) ==
    IF Len(rows) > 0
    THEN [columns |-> {"TX_DATETIME", "CUSTOMER_ID", "TERMINAL_ID", "TX_AMOUNT",
                       "TX_TIME_SECONDS", "TX_TIME_DAYS"},
          rows |-> [i \in 1..Len(rows) |->
                      [TX_DATETIME |-> to_datetime(rows[i].TX_TIME_SECONDS),
                       CUSTOMER_ID |-> rows[i].CUSTOMER_ID,
                       TERMINAL_ID |-> rows[i].TERMINAL_ID,
                       TX_AMOUNT |-> rows[i].TX_AMOUNT,
                       TX_TIME_SECONDS |-> rows[i].TX_TIME_SECONDS,
                       TX_TIME_DAYS |-> rows[i].TX_TIME_DAYS]]]
    ELSE [columns |-> {"TX_TIME_SECONDS", "TX_TIME_DAYS", "CUSTOMER_ID",
                       "TERMINAL_ID", "TX_AMOUNT"},
          rows |-> <<>>]

\* The table returned for the draws of the days
generate_transactions_table(customer_profile, nb, draws) ==
    transactions_table(days_transactions(customer_profile, nb, 0, draws))

-----------------------------------------------------------------------------
(* generate_dataset *)

RECURSIVE TotalLen(_, _, _)
TotalLen(draws, nb, day) ==
    IF day >= nb THEN 0 ELSE Len(draws[day]) + TotalLen(draws, nb, day + 1)

\* The draws of one call of generate_transactions_table: for each day the
\* sequence of its transaction draws, its length the Poisson draw of the day
DrawScripts(customer_profile, nb, budget) ==
    {draws \in [0..(nb - 1) -> SeqsUpTo(TxDraws(customer_profile), budget)] :
        /\ \A day \in 0..(nb - 1) :
              Len(draws[day]) \in PoissonDraws(customer_profile.mean_nb_tx_per_day)
        /\ TotalLen(draws, nb, 0) <= budget}

\* groupby('CUSTOMER_ID').apply(...).reset_index(drop=True): the tables one after
\* another in CUSTOMER_ID order, with every column some table has
concat_tables(tables) ==
    [columns |-> UNION {tables[i].columns : i \in 1..Len(tables)},
     rows |-> Flatten([i \in 1..Len(tables) |-> tables[i].rows])]

IndexPermutations(n) == {p \in [1..n -> 1..n] : \A i, j \in 1..n : p[i] = p[j] => i = j}

sort_values_unsorted(rows) == {rows}

\* sort_values('TX_DATETIME'): the orders of the rows a sort by that column may
\* leave (the default sort is not stable, so rows with equal keys come in any order)
sort_values(rows) ==
    {[i \in 1..Len(rows) |-> rows[p[i]]] : p \in
        {q \in IndexPermutations(Len(rows)) :
            \A i, j \in 1..Len(rows) :
                i < j => rows[q[i]].TX_DATETIME <= rows[q[j]].TX_DATETIME}}

\* reset_index(drop=True), reset_index(), rename index -> TRANSACTION_ID
reset_index(rows) ==
    [i \in 1..Len(rows) |->
        [TRANSACTION_ID |-> i - 1,
         TX_DATETIME |-> rows[i].TX_DATETIME,
         CUSTOMER_ID |-> rows[i].CUSTOMER_ID,
         TERMINAL_ID |-> rows[i].TERMINAL_ID,
         TX_AMOUNT |-> rows[i].TX_AMOUNT,
         TX_TIME_SECONDS |-> rows[i].TX_TIME_SECONDS,
         TX_TIME_DAYS |-> rows[i].TX_TIME_DAYS]]

NbRows(tables) == Len(concat_tables(tables).rows)

\* The columns available_terminals and nb_terminals generate_dataset adds
with_available_terminals(customers, terminals, rad) ==
    LET x_y_terminals == [i \in DOMAIN terminals |-> terminals[i].x_y_terminal]
        available(c) == get_list_terminals_within_radius(customers[c], x_y_terminals, rad)
    IN  [c \in DOMAIN customers |->
            [CUSTOMER_ID |-> customers[c].CUSTOMER_ID,
             x_y_customer |-> customers[c].x_y_customer,
             mean_amount |-> customers[c].mean_amount,
             std_amount |-> customers[c].std_amount,
             mean_nb_tx_per_day |-> customers[c].mean_nb_tx_per_day,
             available_terminals |-> available(c),
             nb_terminals |-> Len(available(c))]]

-----------------------------------------------------------------------------
(* The run of generate_dataset *)

\* Nothing drawn yet: the days scenario 2 has drawn terminals for, the positions
\* of the rows that lay in the 28-day window of a draw of their terminal, the
\* amounts at the start of the pass of scenario 3, the customers with
\* transactions that the iteration in progress of scenario 3 drew, the positions
\* of the rows its iterations selected, and TX_FRAUD.sum() at the end of each pass
NoHistory ==
    [draw_days_2 |-> {}, exposed_2 |-> {}, amount_before_3 |-> <<>>,
     compromised_customers |-> {}, selected_3 |-> {}, fraud_sums |-> <<>>]

\* No call of generate_transactions_table on its own
NoCall == <<>>

\* The service is not started and no walker runs
NoService ==
    /\ users = <<>>
    /\ startup = [pc |-> "idle"]
    /\ walker = [pc |-> "idle"]

\* The first run of the script, started with the generators in the states np and py
FirstRun(np, py) == [nr |-> 1, np |-> np, py |-> py]

Init ==
    /\ pc = "start"
    /\ n_customers \in NbCustomersChoices
    /\ n_terminals \in NbTerminalsChoices
    /\ nb_days \in NbDaysChoices
    /\ r \in RadiusChoices
    /\ customer_profiles_table = <<>>
    /\ terminal_profiles_table = <<>>
    /\ customer_transactions = <<>>
    /\ transactions_df = <<>>
    /\ error = "none"
    /\ loop_day = 0
    /\ compromised_transactions = {}
    /\ nb_frauds_scenario_1 = 0
    /\ nb_frauds_scenario_2 = 0
    /\ nb_frauds_scenario_3 = 0
    /\ history = NoHistory
    /\ np_random = 0
    /\ py_random = 0
    /\ run = FirstRun(0, 0)
    /\ first_run = <<>>
    /\ workers = <<>>
    /\ overlapped = FALSE
    /\ direct_call = NoCall
    /\ NoService

GenerateCustomerProfiles ==
    /\ pc = "start"
    /\ \E draws \in [0..(n_customers - 1) -> CustomerProfiles] :
          customer_profiles_table' = generate_customer_profiles_table(n_customers, draws)
    /\ pc' = "customers"
    /\ UNCHANGED <<n_customers, n_terminals, nb_days, r, terminal_profiles_table,
                   customer_transactions, transactions_df, error, fraud_vars,
                   rng_vars, service_vars>>

GenerateTerminalProfiles ==
    /\ pc = "customers"
    /\ \E draws \in [0..(n_terminals - 1) -> TerminalPositions] :
          terminal_profiles_table' = generate_terminal_profiles_table(n_terminals, draws)
    /\ pc' = "terminals"
    /\ UNCHANGED <<n_customers, n_terminals, nb_days, r, customer_profiles_table,
                   customer_transactions, transactions_df, error, fraud_vars,
                   rng_vars, service_vars>>

AssociateTerminals ==
    /\ pc = "terminals"
    /\ customer_profiles_table' =
          with_available_terminals(customer_profiles_table, terminal_profiles_table, r)
    /\ pc' = "transactions"
    /\ UNCHANGED <<n_customers, n_terminals, nb_days, r, terminal_profiles_table,
                   customer_transactions, transactions_df, error, fraud_vars,
                   rng_vars, service_vars>>

\* One call of the lambda of groupby('CUSTOMER_ID').apply, in CUSTOMER_ID order
GenerateTransactions ==
    /\ pc = "transactions"
    /\ Len(customer_transactions) < n_customers
    /\ LET customer_profile == customer_profiles_table[Len(customer_transactions)]
       IN  \E draws \in DrawScripts(customer_profile, nb_days,
                                    MaxTx - NbRows(customer_transactions)) :
              customer_transactions' =
                 Append(customer_transactions,
                        generate_transactions_table(customer_profile, nb_days, draws))
    /\ UNCHANGED <<pc, n_customers, n_terminals, nb_days, r, customer_profiles_table,
                   terminal_profiles_table, transactions_df, error, fraud_vars,
                   rng_vars, service_vars>>

\* The rest of generate_dataset: sort by TX_DATETIME, renumber, return
SortTransactions ==
    /\ pc = "transactions"
    /\ Len(customer_transactions) = n_customers
    /\ LET df == concat_tables(customer_transactions)
       IN  IF "TX_DATETIME" \in df.columns
           THEN /\ \E sorted \in sort_values(df.rows) :
                      transactions_df' = reset_index(sorted)
                /\ pc' = "dataset"
                /\ error' = error
           ELSE /\ pc' = "raised"
                /\ error' = "KeyError"
                /\ transactions_df' = transactions_df
    /\ UNCHANGED <<n_customers, n_terminals, nb_days, r, customer_profiles_table,
                   terminal_profiles_table, customer_transactions, fraud_vars,
                   rng_vars, service_vars>>

Next ==
    \/ GenerateCustomerProfiles
    \/ GenerateTerminalProfiles
    \/ AssociateTerminals
    \/ GenerateTransactions
    \/ SortTransactions

Spec == Init /\ [][Next]_vars

-----------------------------------------------------------------------------
(* Properties of generate_dataset *)

AllGeneratedRows ==
    UNION {Range(customer_transactions[i].rows) : i \in 1..Len(customer_transactions)}
        \cup Range(transactions_df)

Available(customer_id) ==
    Range(customer_profiles_table[customer_id].available_terminals)

\* C1: every transaction generate_transactions_table produces, in the per-customer
\* tables and in the table generate_dataset returns, has a TERMINAL_ID that is a
\* member of its customer's available_terminals list.
C1_TerminalInAvailable ==
    /\ \A i \in 1..Len(customer_transactions) :
          \A k \in 1..Len(customer_transactions[i].rows) :
              /\ customer_transactions[i].rows[k].CUSTOMER_ID = i - 1
              /\ customer_transactions[i].rows[k].TERMINAL_ID \in Available(i - 1)
    /\ \A i \in 1..Len(transactions_df) :
          transactions_df[i].TERMINAL_ID \in Available(transactions_df[i].CUSTOMER_ID)

\* A returned transaction of a customer who reaches some terminals but not all
C1_Witness ==
    /\ pc = "dataset"
    /\ \E i \in 1..Len(transactions_df) :
          /\ Available(transactions_df[i].CUSTOMER_ID) # 0..(n_terminals - 1)
          /\ transactions_df[i].TERMINAL_ID # 0

\* C2: every transaction emitted has a time-of-day offset
\* TX_TIME_SECONDS - TX_TIME_DAYS*86400 in [0, 86400) and TX_AMOUNT >= 0, also
\* when the normal draw of the amount was negative.
C2_TimeAndAmountInRange ==
    \A row \in AllGeneratedRows :
        /\ 0 <= row.TX_TIME_SECONDS - row.TX_TIME_DAYS * SecondsPerDay
        /\ row.TX_TIME_SECONDS - row.TX_TIME_DAYS * SecondsPerDay < SecondsPerDay
        /\ row.TX_AMOUNT >= 0

\* A transaction whose amount is twice the customer's mean: only the uniform
\* draw that replaces a negative normal draw gives it
C2_Witness ==
    \E i \in 1..Len(customer_transactions) :
        \E k \in 1..Len(customer_transactions[i].rows) :
            customer_transactions[i].rows[k].TX_AMOUNT =
                2 * customer_profiles_table[i - 1].mean_amount

AllStarved ==
    \A c \in DOMAIN customer_profiles_table :
        customer_profiles_table[c].available_terminals = <<>>

\* C3: when the radius leaves every customer with zero reachable terminals, the
\* run ends without an error and with an empty transaction set.
C3_SilentStarvation ==
    (pc \in {"dataset", "raised"} /\ AllStarved)
        => (error = "none" /\ pc = "dataset" /\ transactions_df = <<>>)

\* C4: the list get_list_terminals_within_radius returns for a customer holds
\* exactly the terminals at a distance strictly less than r (squared distance
\* below r*r), each once.
C4_ExactlyWithinRadius ==
    pc \in {"transactions", "dataset", "raised"} =>
        \A c \in DOMAIN customer_profiles_table :
            LET avail == customer_profiles_table[c].available_terminals
            IN  /\ \A t \in DOMAIN terminal_profiles_table :
                      (t \in Range(avail)) <=>
                          SquaredDist(customer_profiles_table[c].x_y_customer,
                                      terminal_profiles_table[t].x_y_terminal) < r * r
                /\ Cardinality(Range(avail)) = Len(avail)
                /\ customer_profiles_table[c].nb_terminals = Len(avail)

\* A customer with one terminal at a distance exactly r (left out) and another
\* one nearer (listed)
C4_Witness ==
    /\ pc = "transactions"
    /\ \E c \in DOMAIN customer_profiles_table :
          \E t, u \in DOMAIN terminal_profiles_table :
              /\ SquaredDist(customer_profiles_table[c].x_y_customer,
                             terminal_profiles_table[t].x_y_terminal) = r * r
              /\ t \notin Available(c)
              /\ u \in Available(c)

\* C5: in the table generate_dataset returns the rows are in non-decreasing order
\* of absolute timestamp, the row at position i has TRANSACTION_ID i, and the rows
\* are those of the per-customer tables, so the identifiers are 0..N-1.
C5_SortedDenseIds ==
    pc = "dataset" =>
        /\ Len(transactions_df) = NbRows(customer_transactions)
        /\ \A i \in 1..Len(transactions_df) : transactions_df[i].TRANSACTION_ID = i - 1
        /\ \A i, j \in 1..Len(transactions_df) :
              i < j => transactions_df[i].TX_TIME_SECONDS <= transactions_df[j].TX_TIME_SECONDS
        /\ \A c \in 1..Len(customer_transactions) :
              Cardinality({i \in 1..Len(transactions_df) :
                              transactions_df[i].CUSTOMER_ID = c - 1})
                  = Len(customer_transactions[c].rows)

\* Two customers whose tables, put one after the other, are out of order
C5_Witness ==
    /\ pc = "dataset"
    /\ Len(customer_transactions) = 2
    /\ customer_transactions[1].rows # <<>>
    /\ customer_transactions[2].rows # <<>>
    /\ customer_transactions[1].rows[1].TX_TIME_SECONDS
           > customer_transactions[2].rows[1].TX_TIME_SECONDS

-----------------------------------------------------------------------------
(* add_frauds *)

\* transactions_df['TX_FRAUD']=0: the column is created, or overwritten
add_column(df, column, value) ==
    [i \in 1..Len(df) |->
        [c \in DOMAIN df[i] \cup {column} |-> IF c = column THEN value ELSE df[i][c]]]

loc_assign_reset(df, index, column, value) ==
    [i \in 1..Len(df) |-> [df[i] EXCEPT ![column] = IF i \in index THEN value ELSE 0]]

\* transactions_df.loc[index, column] = value
loc_assign(df, index, column, value) ==
    [i \in 1..Len(df) |-> IF i \in index THEN [df[i] EXCEPT ![column] = value] ELSE df[i]]

\* The number of rows with TX_FRAUD = 1
NbLabelledFraud(df) == Cardinality({i \in 1..Len(df) : df[i].TX_FRAUD = 1})

fraud_sum_all(df) == Len(df)

\* transactions_df.TX_FRAUD.sum()
fraud_sum(df) == Cardinality({i \in 1..Len(df) : df[i].TX_FRAUD = 1})

\* transactions_df.TX_TIME_DAYS.max()
max_day(df) ==
    CHOOSE m \in {df[i].TX_TIME_DAYS : i \in 1..Len(df)} :
        \A i \in 1..Len(df) : df[i].TX_TIME_DAYS <= m

over_threshold_or_equal(amount) == amount >= FraudAmount * 100

\* TX_AMOUNT>220, the amount in cents
over_threshold(amount) == amount > FraudAmount * 100

in_window_closed(tx_day, d, width) == (tx_day >= d) /\ (tx_day <= d + width)

\* (TX_TIME_DAYS>=day) & (TX_TIME_DAYS<day+width)
in_window(tx_day, d, width) == (tx_day >= d) /\ (tx_day < d + width)

\* The subsets of S with k elements
RECURSIVE KSubsets(_, _)
KSubsets(S, k) ==
    IF k <= 0 THEN {{}}
    ELSE UNION {{T \cup {x} : T \in KSubsets(S \ {x}, k - 1)} : x \in S}

\* Series.sample(n=n, random_state=day): the sets of n of the values a draw may
\* give (none when there are fewer than n values: the call raises ValueError)
sample(values, n) ==
    IF n > Cardinality(values) THEN {}
    ELSE IF 2 * n > Cardinality(values)
    THEN {values \ E : E \in KSubsets(values, Cardinality(values) - n)}
    ELSE KSubsets(values, n)

random_sample_one_more(index, k) == KSubsets(index, k + 1)

\* random.sample(index, k=k): k distinct positions
random_sample(index, k) == KSubsets(index, k)

\* The positions of the rows in the window of the day on the drawn terminals
compromised_on_terminals(df, d, terminals) ==
    {i \in 1..Len(df) :
        /\ in_window(df[i].TX_TIME_DAYS, d, TerminalWindow)
        /\ df[i].TERMINAL_ID \in terminals}

\* The positions of the rows in the window of the day of the drawn customers
compromised_of_customers(df, d, customers) ==
    {i \in 1..Len(df) :
        /\ in_window(df[i].TX_TIME_DAYS, d, CustomerWindow)
        /\ df[i].CUSTOMER_ID \in customers}

multiply_amounts_all(df, index) ==
    [i \in 1..Len(df) |-> [df[i] EXCEPT !["TX_AMOUNT"] = df[i].TX_AMOUNT * AmountFactor]]

\* transactions_df.loc[index,'TX_AMOUNT'] = transactions_df.loc[index,'TX_AMOUNT']*5
multiply_amounts(df, index) ==
    [i \in 1..Len(df) |->
        IF i \in index
        THEN [df[i] EXCEPT !["TX_AMOUNT"] = df[i].TX_AMOUNT * AmountFactor]
        ELSE df[i]]

-----------------------------------------------------------------------------
(* The run of add_frauds on a table generate_dataset returned *)

FraudNbCustomersChoices == {59, 61}
FraudNbTerminalsChoices == {1, 3}
FraudNbDaysChoices == {1, 2, 3, 29}
FraudAmounts == {22000, 22001}
FraudRadius == {1}

\* Customer 0 and customer 1 each next to one terminal, the others next to none
FraudCustomerDraws(n) ==
    [c \in 0..(n - 1) |->
        [x_y_customer |-> IF c = 0 THEN <<0, 0>> ELSE IF c = 1 THEN <<3, 4>> ELSE <<6, 8>>,
         mean_amount |-> 10000, mean_nb_tx_per_day |-> 2]]

FraudTerminalDraws(n) ==
    [t \in 0..(n - 1) |-> IF t = 0 THEN <<0, 0>> ELSE IF t = 1 THEN <<3, 4>> ELSE <<9, 12>>]

\* The rows generate_transactions_table may have produced: on the first or the
\* last day, of a customer on a terminal of its list, at an hour of its own
FraudRows(customers, nb) ==
    {[TX_DATETIME |-> to_datetime(row.TX_TIME_SECONDS),
      CUSTOMER_ID |-> row.CUSTOMER_ID,
      TERMINAL_ID |-> row.TERMINAL_ID,
      TX_AMOUNT |-> row.TX_AMOUNT,
      TX_TIME_SECONDS |-> row.TX_TIME_SECONDS,
      TX_TIME_DAYS |-> row.TX_TIME_DAYS] :
        row \in UNION {
            {[CUSTOMER_ID |-> c, TERMINAL_ID |-> t, TX_AMOUNT |-> a, TX_TIME_DAYS |-> d,
              TX_TIME_SECONDS |-> d * SecondsPerDay
                                    + 3600 * (1 + 2 * c + (IF over_threshold(a) THEN 1 ELSE 0))] :
                t \in Range(customers[c].available_terminals),
                a \in FraudAmounts,
                d \in {0, nb - 1}} : c \in DOMAIN customers}}

\* The number of rows a table may have on a day that lies in more than two of
\* the windows of scenario 3 (each such window may multiply an amount again, and
\* the amounts must stay below 2^31)
LateRowsChoices == {0, 1, 2}

\* The tables generate_dataset may return with these rows
FraudTables(customers, nb) ==
    UNION {UNION {{reset_index(sorted) :
                      sorted \in sort_values(CHOOSE seq \in [1..Cardinality(S) -> S] :
                                                Range(seq) = S)} :
                  S \in {T \in KSubsets(FraudRows(customers, nb), k) :
                            Cardinality({row \in T : row.TX_TIME_DAYS > 2})
                                \in LateRowsChoices}} :
           k \in 1..MaxLabelledTx}

FraudInit ==
    /\ pc = "add_frauds"
    /\ n_customers \in FraudNbCustomersChoices
    /\ n_terminals \in FraudNbTerminalsChoices
    /\ nb_days \in FraudNbDaysChoices
    /\ r \in FraudRadius
    /\ terminal_profiles_table =
          generate_terminal_profiles_table(n_terminals, FraudTerminalDraws(n_terminals))
    /\ customer_profiles_table =
          with_available_terminals(
              generate_customer_profiles_table(n_customers, FraudCustomerDraws(n_customers)),
              terminal_profiles_table, r)
    /\ customer_transactions = <<>>
    /\ transactions_df \in FraudTables(customer_profiles_table, nb_days)
    /\ error = "none"
    /\ loop_day = 0
    /\ compromised_transactions = {}
    /\ nb_frauds_scenario_1 = 0
    /\ nb_frauds_scenario_2 = 0
    /\ nb_frauds_scenario_3 = 0
    /\ history = NoHistory
    /\ np_random = 0
    /\ py_random = 0
    /\ run = FirstRun(0, 0)
    /\ first_run = <<>>
    /\ workers = <<>>
    /\ overlapped = FALSE
    /\ direct_call = NoCall
    /\ NoService

\* lines 497-498
InitLabels ==
    /\ pc = "add_frauds"
    /\ transactions_df' =
          add_column(add_column(transactions_df, "TX_FRAUD", 0), "TX_FRAUD_SCENARIO", 0)
    /\ pc' = "scenario1"
    /\ UNCHANGED <<error, gen_vars, fraud_vars, rng_vars, service_vars>>

Scenario1FraudSkipped ==
    /\ pc = "scenario1"
    /\ pc' = "scenario1_tag"
    /\ UNCHANGED <<transactions_df, error, gen_vars, fraud_vars, rng_vars, service_vars>>

\* line 501
Scenario1Fraud ==
    /\ pc = "scenario1"
    /\ transactions_df' =
          loc_assign(transactions_df,
                     {i \in 1..Len(transactions_df) :
                         over_threshold(transactions_df[i].TX_AMOUNT)},
                     "TX_FRAUD", 1)
    /\ pc' = "scenario1_tag"
    /\ UNCHANGED <<error, gen_vars, fraud_vars, rng_vars, service_vars>>

\* lines 502-503, and the entry of the loop of scenario 2
Scenario1Tag ==
    /\ pc = "scenario1_tag"
    /\ transactions_df' =
          loc_assign(transactions_df,
                     {i \in 1..Len(transactions_df) :
                         over_threshold(transactions_df[i].TX_AMOUNT)},
                     "TX_FRAUD_SCENARIO", 1)
    /\ nb_frauds_scenario_1' = fraud_sum(transactions_df')
    /\ history' = [history EXCEPT !.fraud_sums = Append(@, NbLabelledFraud(transactions_df'))]
    /\ loop_day' = 0
    /\ pc' = "scenario2"
    /\ UNCHANGED <<error, gen_vars, compromised_transactions, nb_frauds_scenario_2,
                   nb_frauds_scenario_3, rng_vars, service_vars>>

TerminalIds == {terminal_profiles_table[t].TERMINAL_ID : t \in DOMAIN terminal_profiles_table}

CustomerIds == {customer_profiles_table[c].CUSTOMER_ID : c \in DOMAIN customer_profiles_table}

\* line 509 with fewer terminals than the sample size
Scenario2Raise ==
    /\ pc = "scenario2"
    /\ loop_day < max_day(transactions_df)
    /\ sample(TerminalIds, NbCompromisedTerminals) = {}
    /\ pc' = "raised"
    /\ error' = "ValueError"
    /\ UNCHANGED <<transactions_df, gen_vars, fraud_vars, rng_vars, service_vars>>

\* lines 511-515: the rows in the window on the terminals drawn get TX_FRAUD = 1
Scenario2Mark(compromised_terminals) ==
    /\ compromised_transactions' =
          compromised_on_terminals(transactions_df, loop_day, compromised_terminals)
    /\ history' =
          [history EXCEPT
              !.draw_days_2 = @ \cup {loop_day},
              !.exposed_2 = @ \cup
                  {i \in 1..Len(transactions_df) :
                      /\ transactions_df[i].TERMINAL_ID \in compromised_terminals
                      /\ loop_day <= transactions_df[i].TX_TIME_DAYS
                      /\ transactions_df[i].TX_TIME_DAYS <= loop_day + 27}]
    /\ transactions_df' = loc_assign(transactions_df, compromised_transactions', "TX_FRAUD", 1)
    /\ pc' = "scenario2_tag"
    /\ UNCHANGED <<error, gen_vars, loop_day, nb_frauds_scenario_1, nb_frauds_scenario_2,
                   nb_frauds_scenario_3>>

\* lines 509-515: one iteration, up to the assignment of TX_FRAUD
Scenario2Fraud ==
    /\ pc = "scenario2"
    /\ loop_day < max_day(transactions_df)
    /\ \E compromised_terminals \in sample(TerminalIds, NbCompromisedTerminals) :
          Scenario2Mark(compromised_terminals)
    /\ UNCHANGED <<rng_vars, service_vars>>

Scenario2TagSkipped ==
    /\ pc = "scenario2_tag"
    /\ compromised_transactions' = {}
    /\ loop_day' = loop_day + 1
    /\ pc' = "scenario2"
    /\ UNCHANGED <<transactions_df, error, gen_vars, nb_frauds_scenario_1,
                   nb_frauds_scenario_2, nb_frauds_scenario_3, history, rng_vars, service_vars>>

\* line 516, and the step of the loop
Scenario2Tag ==
    /\ pc = "scenario2_tag"
    /\ transactions_df' =
          loc_assign(transactions_df, compromised_transactions, "TX_FRAUD_SCENARIO", 2)
    /\ compromised_transactions' = {}
    /\ loop_day' = loop_day + 1
    /\ pc' = "scenario2"
    /\ UNCHANGED <<error, gen_vars, nb_frauds_scenario_1, nb_frauds_scenario_2,
                   nb_frauds_scenario_3, history,
                   rng_vars, service_vars>>

\* line 518, and the entry of the loop of scenario 3
Scenario2End ==
    /\ pc = "scenario2"
    /\ loop_day >= max_day(transactions_df)
    /\ nb_frauds_scenario_2' = fraud_sum(transactions_df) - nb_frauds_scenario_1
    /\ history' =
          [history EXCEPT
              !.fraud_sums = Append(@, NbLabelledFraud(transactions_df)),
              !.amount_before_3 =
                  [i \in 1..Len(transactions_df) |-> transactions_df[i].TX_AMOUNT]]
    /\ loop_day' = 0
    /\ pc' = "scenario3"
    /\ UNCHANGED <<transactions_df, error, gen_vars, compromised_transactions,
                   nb_frauds_scenario_1, nb_frauds_scenario_3, rng_vars, service_vars>>

\* line 524 with fewer customers than the sample size
Scenario3Raise ==
    /\ pc = "scenario3"
    /\ loop_day < max_day(transactions_df)
    /\ sample(CustomerIds, NbCompromisedCustomers) = {}
    /\ pc' = "raised"
    /\ error' = "ValueError"
    /\ UNCHANGED <<transactions_df, gen_vars, fraud_vars, rng_vars, service_vars>>

\* line 536: the amounts of the rows selected are multiplied
Scenario3Multiply(compromised_customers, index_fauds) ==
    /\ compromised_transactions' = index_fauds
    /\ history' =
          [history EXCEPT
              !.compromised_customers =
                  compromised_customers
                      \cap {transactions_df[i].CUSTOMER_ID : i \in 1..Len(transactions_df)},
              !.selected_3 = @ \cup index_fauds]
    /\ transactions_df' = multiply_amounts(transactions_df, index_fauds)
    /\ pc' = "scenario3_fraud"
    /\ UNCHANGED <<error, gen_vars, loop_day, nb_frauds_scenario_1, nb_frauds_scenario_2,
                   nb_frauds_scenario_3>>

\* lines 524-536: one iteration, up to the multiplication of the amounts
Scenario3Amount ==
    /\ pc = "scenario3"
    /\ loop_day < max_day(transactions_df)
    /\ \E compromised_customers \in sample(CustomerIds, NbCompromisedCustomers) :
          LET compromised ==
                  compromised_of_customers(transactions_df, loop_day, compromised_customers)
              nb_compromised_transactions == Cardinality(compromised)
          IN  \E index_fauds \in random_sample(compromised, nb_compromised_transactions \div 3) :
                  Scenario3Multiply(compromised_customers, index_fauds)
    /\ UNCHANGED <<rng_vars, service_vars>>

Scenario3FraudSkipped ==
    /\ pc = "scenario3_fraud"
    /\ pc' = "scenario3_tag"
    /\ UNCHANGED <<transactions_df, error, gen_vars, fraud_vars, rng_vars, service_vars>>

\* line 537
Scenario3Fraud ==
    /\ pc = "scenario3_fraud"
    /\ transactions_df' = loc_assign(transactions_df, compromised_transactions, "TX_FRAUD", 1)
    /\ pc' = "scenario3_tag"
    /\ UNCHANGED <<error, gen_vars, fraud_vars, rng_vars, service_vars>>

\* line 538, and the step of the loop
Scenario3Tag ==
    /\ pc = "scenario3_tag"
    /\ transactions_df' =
          loc_assign(transactions_df, compromised_transactions, "TX_FRAUD_SCENARIO", 3)
    /\ compromised_transactions' = {}
    /\ history' = [history EXCEPT !.compromised_customers = {}]
    /\ loop_day' = loop_day + 1
    /\ pc' = "scenario3"
    /\ UNCHANGED <<error, gen_vars, nb_frauds_scenario_1, nb_frauds_scenario_2,
                   nb_frauds_scenario_3, rng_vars, service_vars>>

\* lines 541-544
Scenario3End ==
    /\ pc = "scenario3"
    /\ loop_day >= max_day(transactions_df)
    /\ nb_frauds_scenario_3' =
          fraud_sum(transactions_df) - nb_frauds_scenario_2 - nb_frauds_scenario_1
    /\ history' = [history EXCEPT !.fraud_sums = Append(@, NbLabelledFraud(transactions_df))]
    /\ pc' = "returned"
    /\ UNCHANGED <<transactions_df, error, gen_vars, loop_day, compromised_transactions,
                   nb_frauds_scenario_1, nb_frauds_scenario_2, rng_vars, service_vars>>

FraudNext ==
    \/ InitLabels
    \/ Scenario1Fraud
    \/ Scenario1Tag
    \/ Scenario2Raise
    \/ Scenario2Fraud
    \/ Scenario2Tag
    \/ Scenario2End
    \/ Scenario3Raise
    \/ Scenario3Amount
    \/ Scenario3Fraud
    \/ Scenario3Tag
    \/ Scenario3End

SpecFraud == FraudInit /\ [][FraudNext]_vars

-----------------------------------------------------------------------------
(* Properties of add_frauds *)

\* The pass of scenario 1 has just ended: no iteration of scenario 2 has run
AfterScenario1 == pc = "scenario2" /\ loop_day = 0

\* The pass of scenario 2 has just ended: no iteration of scenario 3 has run
AfterScenario2 == pc = "scenario3" /\ loop_day = 0

\* C8: right after the pass of scenario 1, a transaction with an amount above 220
\* has TX_FRAUD = 1 and TX_FRAUD_SCENARIO = 1, and a transaction with an amount of
\* at most 220 has TX_FRAUD = 0 and TX_FRAUD_SCENARIO = 0.
C8_Scenario1Labels ==
    AfterScenario1 =>
        \A i \in 1..Len(transactions_df) :
            IF transactions_df[i].TX_AMOUNT > 22000
            THEN transactions_df[i].TX_FRAUD = 1 /\ transactions_df[i].TX_FRAUD_SCENARIO = 1
            ELSE transactions_df[i].TX_FRAUD = 0 /\ transactions_df[i].TX_FRAUD_SCENARIO = 0

\* After scenario 1, a table with an amount of exactly 220 and one above it
C8_Witness ==
    /\ AfterScenario1
    /\ \E i, j \in 1..Len(transactions_df) :
          /\ transactions_df[i].TX_AMOUNT = 22000
          /\ transactions_df[i].TX_FRAUD = 0
          /\ transactions_df[j].TX_AMOUNT > 22000
          /\ transactions_df[j].TX_FRAUD = 1

\* C9: right after the pass of scenario 2, every transaction that lay in the
\* window [d, d+28) of a day d for which its terminal was drawn has TX_FRAUD = 1
\* (and the tag 2), and a transaction that lay in no such window was not marked
\* by the pass: it is fraudulent only if scenario 1 marked it.
C9_Scenario2Window ==
    AfterScenario2 =>
        \A i \in 1..Len(transactions_df) :
            IF i \in history.exposed_2
            THEN transactions_df[i].TX_FRAUD = 1 /\ transactions_df[i].TX_FRAUD_SCENARIO = 2
            ELSE /\ transactions_df[i].TX_FRAUD_SCENARIO # 2
                 /\ transactions_df[i].TX_FRAUD = 1 <=> transactions_df[i].TX_AMOUNT > 22000

\* After scenario 2, a terminal drawn for day 0 (its transaction of day 0 is
\* marked) whose transaction of day 28 is not marked
C9_Witness ==
    /\ AfterScenario2
    /\ \E i, j \in 1..Len(transactions_df) :
          /\ transactions_df[i].TERMINAL_ID = transactions_df[j].TERMINAL_ID
          /\ transactions_df[i].TX_TIME_DAYS = 0
          /\ i \in history.exposed_2
          /\ transactions_df[i].TX_FRAUD_SCENARIO = 2
          /\ transactions_df[j].TX_TIME_DAYS = 28
          /\ j \notin history.exposed_2
          /\ transactions_df[j].TX_FRAUD = 0

\* C10: the pass of scenario 2 makes a draw for each day from 0 to the maximum
\* day index of the table, that day included.
C10_DrawForEveryDay ==
    AfterScenario2 => history.draw_days_2 = 0..max_day(transactions_df)

\* C11: when add_frauds returns, every transaction an iteration of scenario 3
\* selected has TX_FRAUD = 1 and an amount of exactly 5 times the amount it had
\* when the pass of scenario 3 started, whatever the overlap of the windows.
C11_FiveTimesBefore ==
    pc = "returned" =>
        \A i \in history.selected_3 :
            /\ transactions_df[i].TX_FRAUD = 1
            /\ transactions_df[i].TX_AMOUNT = 5 * history.amount_before_3[i]

\* The labels exist: add_frauds is past lines 497-498
Labelled == pc \in {"scenario1", "scenario1_tag", "scenario2", "scenario2_tag",
                    "scenario3", "scenario3_fraud", "scenario3_tag", "returned", "raised"}

\* The number of the last pass that marked the row at position i
LastScenario(i) ==
    IF i \in history.selected_3 THEN 3
    ELSE IF i \in history.exposed_2 THEN 2
    ELSE IF history.amount_before_3[i] > 22000 THEN 1
    ELSE 0

\* C12: in every state of add_frauds a transaction with TX_FRAUD_SCENARIO # 0 has
\* TX_FRAUD = 1, and in the table returned the tag of a transaction is the number
\* of the last pass that marked it: 3 if scenario 3 selected it, else 2 if it lay
\* in the window of a draw of its terminal, else 1 if its amount was above 220,
\* else 0.
C12_TagOfLastScenario ==
    /\ Labelled =>
          \A i \in 1..Len(transactions_df) :
              transactions_df[i].TX_FRAUD_SCENARIO # 0 => transactions_df[i].TX_FRAUD = 1
    /\ pc = "returned" =>
          \A i \in 1..Len(transactions_df) :
              transactions_df[i].TX_FRAUD_SCENARIO = LastScenario(i)

\* A table returned with a row every pass marked (tag 3), a row scenarios 1 and
\* 2 marked (tag 2) and a row only scenario 1 marked (tag 1)
C12_Witness ==
    /\ pc = "returned"
    /\ \E i, j, k \in 1..Len(transactions_df) :
          /\ transactions_df[i].TX_FRAUD_SCENARIO = 3
          /\ i \in history.exposed_2
          /\ history.amount_before_3[i] > 22000
          /\ transactions_df[j].TX_FRAUD_SCENARIO = 2
          /\ history.amount_before_3[j] > 22000
          /\ transactions_df[k].TX_FRAUD_SCENARIO = 1
          /\ transactions_df[k].TX_FRAUD = 1

\* C13: add_frauds on a terminal table of fewer than 2 terminals, or a customer
\* table of fewer than 60 customers, does not return: it ends in an error,
\* whatever the transactions and the days they are on.
C13_TooFewRaises ==
    (\/ Cardinality(TerminalIds) < NbCompromisedTerminals
     \/ Cardinality(CustomerIds) < NbCompromisedCustomers) => pc # "returned"

\* C16: the count of scenario N is the number of transactions with TX_FRAUD = 1
\* at the end of pass N less that number at the end of pass N-1 (0 before pass
\* 1), and none of the three counts is negative.
C16_CountIsIncrease ==
    /\ Len(history.fraud_sums) >= 1 =>
          /\ nb_frauds_scenario_1 = history.fraud_sums[1] - 0
          /\ nb_frauds_scenario_1 >= 0
    /\ Len(history.fraud_sums) >= 2 =>
          /\ nb_frauds_scenario_2 = history.fraud_sums[2] - history.fraud_sums[1]
          /\ nb_frauds_scenario_2 >= 0
    /\ Len(history.fraud_sums) >= 3 =>
          /\ nb_frauds_scenario_3 = history.fraud_sums[3] - history.fraud_sums[2]
          /\ nb_frauds_scenario_3 >= 0

\* A table returned to which every pass added a fraud, and that keeps a
\* transaction that is none
C16_Witness ==
    /\ pc = "returned"
    /\ nb_frauds_scenario_1 > 0
    /\ nb_frauds_scenario_2 > 0
    /\ nb_frauds_scenario_3 > 0
    /\ NbLabelledFraud(transactions_df) < Len(transactions_df)

\* The scenarios that marked the row at position i
MarkedBy(i) ==
    (IF history.amount_before_3[i] > 22000 THEN {1} ELSE {})
        \cup (IF i \in history.exposed_2 THEN {2} ELSE {})
        \cup (IF i \in history.selected_3 THEN {3} ELSE {})

\* Some transaction was marked by two scenarios or more
MarkedTwice == \E i \in 1..Len(transactions_df) : Cardinality(MarkedBy(i)) >= 2

\* The number of rows with the tag n
NbTagged(n) ==
    Cardinality({i \in 1..Len(transactions_df) : transactions_df[i].TX_FRAUD_SCENARIO = n})

C18_ThirdOfEligible ==
    [][(pc = "scenario3" /\ pc' = "scenario3_fraud") =>
          LET eligible ==
                  {i \in 1..Len(transactions_df) :
                      /\ transactions_df[i].TX_TIME_DAYS >= loop_day
                      /\ transactions_df[i].TX_TIME_DAYS <= loop_day + 13
                      /\ transactions_df[i].CUSTOMER_ID \in history'.compromised_customers}
              modified ==
                  {i \in 1..Len(transactions_df) :
                      transactions_df'[i].TX_AMOUNT # transactions_df[i].TX_AMOUNT}
          IN  /\ modified \subseteq eligible
              /\ Cardinality(modified) = Cardinality(eligible) \div 3
              /\ modified = compromised_transactions'
              /\ Len(transactions_df') = Len(transactions_df)]_vars

\* An iteration that selected one row of three in the window of the customers
\* drawn, on a table with a fourth row that is before the window
C18_Witness ==
    /\ pc = "scenario3_fraud"
    /\ loop_day = 1
    /\ Cardinality(compromised_transactions) = 1
    /\ Cardinality({i \in 1..Len(transactions_df) :
                       /\ transactions_df[i].TX_TIME_DAYS >= 1
                       /\ transactions_df[i].CUSTOMER_ID \in history.compromised_customers}) = 3
    /\ \E i \in 1..Len(transactions_df) : transactions_df[i].TX_TIME_DAYS = 0

\* C20: from the creation of the labels on, no statement of add_frauds lowers
\* the TX_FRAUD or the TX_FRAUD_SCENARIO of a transaction: a transaction with
\* TX_FRAUD = 1 keeps it, and a tag is only overwritten by a larger one.
C20_LabelsOnlyRise ==
    [][(Labelled /\ Labelled') =>
          /\ Len(transactions_df') = Len(transactions_df)
          /\ \A i \in 1..Len(transactions_df) :
                /\ transactions_df'[i].TX_FRAUD >= transactions_df[i].TX_FRAUD
                /\ transactions_df'[i].TX_FRAUD_SCENARIO
                       >= transactions_df[i].TX_FRAUD_SCENARIO]_vars

\* In the pass of scenario 3: a transaction whose tag went from 1 to 2, and
\* another whose tag went from 2 to 3
C20_Witness ==
    /\ pc = "scenario3"
    /\ loop_day >= 1
    /\ \E i, j \in 1..Len(transactions_df) :
          /\ transactions_df[i].TX_FRAUD_SCENARIO = 2
          /\ history.amount_before_3[i] > 22000
          /\ transactions_df[j].TX_FRAUD_SCENARIO = 3
          /\ j \in history.exposed_2
          /\ transactions_df[j].TX_FRAUD = 1

\* C21: no statement of add_frauds adds, removes or moves a row, or changes the
\* TRANSACTION_ID, the timestamp, the day index, the CUSTOMER_ID or the
\* TERMINAL_ID of a row; a statement changes TX_AMOUNT only in the pass of
\* scenario 3 and only for the rows it selected; and in the table returned a row
\* that keeps its amount and that no scenario marked has TX_FRAUD = 0 and
\* TX_FRAUD_SCENARIO = 0.
C21_FrameOfAddFrauds ==
    [][/\ Len(transactions_df') = Len(transactions_df)
       /\ \A i \in 1..Len(transactions_df) :
             /\ transactions_df'[i].TRANSACTION_ID = transactions_df[i].TRANSACTION_ID
             /\ transactions_df'[i].TX_DATETIME = transactions_df[i].TX_DATETIME
             /\ transactions_df'[i].TX_TIME_SECONDS = transactions_df[i].TX_TIME_SECONDS
             /\ transactions_df'[i].TX_TIME_DAYS = transactions_df[i].TX_TIME_DAYS
             /\ transactions_df'[i].CUSTOMER_ID = transactions_df[i].CUSTOMER_ID
             /\ transactions_df'[i].TERMINAL_ID = transactions_df[i].TERMINAL_ID
             /\ transactions_df'[i].TX_AMOUNT # transactions_df[i].TX_AMOUNT =>
                   (pc = "scenario3" /\ i \in history'.selected_3)
       /\ pc' = "returned" =>
             \A i \in 1..Len(transactions_df') :
                 (/\ transactions_df'[i].TX_AMOUNT = history'.amount_before_3[i]
                  /\ transactions_df'[i].TX_AMOUNT <= 22000
                  /\ i \notin history'.exposed_2
                  /\ i \notin history'.selected_3) =>
                     /\ transactions_df'[i].TX_FRAUD = 0
                     /\ transactions_df'[i].TX_FRAUD_SCENARIO = 0]_vars

\* A table returned with a row scenario 3 selected, a row scenario 2 marked that
\* keeps its amount, and a row no scenario marked
C21_Witness ==
    /\ pc = "returned"
    /\ \E i, j, k \in 1..Len(transactions_df) :
          /\ i \in history.selected_3
          /\ transactions_df[i].TX_AMOUNT # history.amount_before_3[i]
          /\ transactions_df[j].TX_AMOUNT = history.amount_before_3[j]
          /\ transactions_df[j].TX_FRAUD_SCENARIO = 2
          /\ MarkedBy(k) = {}
          /\ transactions_df[k].TX_FRAUD = 0
          /\ transactions_df[k].TX_AMOUNT = history.amount_before_3[k]

\* C22: in the table add_frauds returns, every transaction with a TX_AMOUNT
\* above 220 has TX_FRAUD = 1, also when only the multiplication of scenario 3
\* took the amount above 220; and the transactions with TX_FRAUD = 1 are exactly
\* those with TX_FRAUD_SCENARIO # 0.
C22_FinalAmountAndLabel ==
    pc = "returned" =>
        \A i \in 1..Len(transactions_df) :
            /\ transactions_df[i].TX_AMOUNT > 22000 => transactions_df[i].TX_FRAUD = 1
            /\ transactions_df[i].TX_FRAUD = 1 <=> transactions_df[i].TX_FRAUD_SCENARIO # 0

\* A table returned with a transaction of 220 before scenario 3 that no draw of
\* scenario 2 exposed and that scenario 3 took above 220, one that scenario 1
\* marked, and one of 220 that is no fraud
C22_Witness ==
    /\ pc = "returned"
    /\ \E i, j, k \in 1..Len(transactions_df) :
          /\ history.amount_before_3[i] = 22000
          /\ i \notin history.exposed_2
          /\ transactions_df[i].TX_AMOUNT > 22000
          /\ transactions_df[i].TX_FRAUD = 1
          /\ transactions_df[j].TX_FRAUD_SCENARIO = 1
          /\ transactions_df[k].TX_AMOUNT = 22000
          /\ transactions_df[k].TX_FRAUD = 0

-----------------------------------------------------------------------------
(* The generators.  random and np.random are module-level objects every    *)
(* function of the script draws from; Series.sample(random_state=day)      *)
(* draws from a generator of its own, RandomState(day).  A generator is a  *)
(* deterministic machine: a state, a step, and a number read off the       *)
(* state.  The machine here has 16 states and reads one of 4 quantiles.    *)

\* One step of a generator
next_state(state) == (5 * state + 3) % 16

RECURSIVE steps(_, _)
steps(state, k) == IF k = 0 THEN state ELSE steps(next_state(state), k - 1)

\* The state after k steps (16 steps lead back to the state they started from)
nth_state(state, k) == steps(state, k % 16)

\* The quantile 0..3 of the number the generator gives in a state
quantile(state) == state \div 4

np_random_seed_skipped(state, seed) == state

\* np.random.seed(seed), RandomState(seed): the state depends on the seed alone
np_random_seed(state, seed) == (7 * seed + 1) % 16

random_seed_skipped(state, seed) == state

\* random.seed(seed)
random_seed(state, seed) == (3 * seed + 2) % 16

\* np.random.uniform(low, high) for the quantile q
np_random_uniform(low, high, q) == low + ((high - low) * q) \div 3

\* np.random.normal(loc, scale) for the quantile q
np_random_normal(loc, scale, q) == loc + scale * (2 * q - 3)

\* np.random.poisson(lam) for the quantile q, at most MaxTx
np_random_poisson(lam, q) ==
    LET k == (lam * q + 1) \div 2
    IN  IF k > MaxTx THEN MaxTx ELSE k

\* The index random.choice and random.sample pick in a list of n items
randbelow(state, n) == state % n

\* The draws of generate_customer_profiles_table(n, random_state=seed)
customer_draws(n, np) ==
    [customer_id \in 0..(n - 1) |->
        LET q(k) == quantile(nth_state(np, 4 * customer_id + k))
        IN  [x_y_customer |-> <<np_random_uniform(0, 100, q(1)),
                                np_random_uniform(0, 100, q(2))>>,
             mean_amount |-> np_random_uniform(500, 10000, q(3)),
             mean_nb_tx_per_day |-> np_random_uniform(0, 4, q(4))]]

\* The draws of generate_terminal_profiles_table(n, random_state=seed)
terminal_draws(n, np) ==
    [terminal_id \in 0..(n - 1) |->
        LET q(k) == quantile(nth_state(np, 2 * terminal_id + k))
        IN  <<np_random_uniform(0, 100, q(1)), np_random_uniform(0, 100, q(2))>>]

\* The draws of one pass of the body of `for tx in range(nb_tx)` with the
\* generators in the states np and py, and the states the pass leaves
tx_draw(customer_profile, np, py) ==
    LET np1 == next_state(np)
        \* np.random.normal(86400/2, 20000), in half seconds
        time == np_random_normal(SecondsPerDay, 40000, quantile(np1))
        kept == time_kept(IntTrunc(time))
        np2 == IF kept THEN next_state(np1) ELSE np1
        normal == IF kept
                  THEN np_random_normal(customer_profile.mean_amount * 10,
                                        customer_profile.std_amount * 10, quantile(np2))
                  ELSE 0
        negative == kept /\ normal < 0
        np3 == IF negative THEN next_state(np2) ELSE np2
        uniform == IF negative
                   THEN np_random_uniform(0, customer_profile.mean_amount * 2 * 10,
                                          quantile(np3))
                   ELSE 0
        chooses == kept /\ Len(customer_profile.available_terminals) > 0
        py1 == IF chooses THEN next_state(py) ELSE py
        choice == IF chooses
                  THEN randbelow(py1, Len(customer_profile.available_terminals))
                  ELSE 0
    IN  [draw |-> [time |-> time, normal |-> normal, uniform |-> uniform, choice |-> choice],
         np |-> np3, py |-> py1]

\* The draws of the nb_tx passes of one day
RECURSIVE tx_draws(_, _, _, _)
tx_draws(customer_profile, nb_tx, np, py) ==
    IF nb_tx <= 0 THEN [draws |-> <<>>, np |-> np, py |-> py]
    ELSE LET first == tx_draw(customer_profile, np, py)
             rest == tx_draws(customer_profile, nb_tx - 1, first.np, first.py)
         IN  [draws |-> <<first.draw>> \o rest.draws, np |-> rest.np, py |-> rest.py]

\* The draws of the days day..nb-1: the Poisson draw of the day, then its passes
RECURSIVE days_draws(_, _, _, _, _)
days_draws(customer_profile, nb, day, np, py) ==
    IF day >= nb THEN [draws |-> <<>>, np |-> np, py |-> py]
    ELSE LET np1 == next_state(np)
             nb_tx == np_random_poisson(customer_profile.mean_nb_tx_per_day, quantile(np1))
             today == tx_draws(customer_profile, nb_tx, np1, py)
             rest == days_draws(customer_profile, nb, day + 1, today.np, today.py)
         IN  [draws |-> <<today.draws>> \o rest.draws, np |-> rest.np, py |-> rest.py]

\* generate_transactions_table called with the generators in the states np and
\* py: both are seeded with CUSTOMER_ID, then the draws are made
call_generate_transactions_table(customer_profile, nb, np, py) ==
    LET script == days_draws(customer_profile, nb, 0,
                             np_random_seed(np, customer_profile.CUSTOMER_ID),
                             random_seed(py, customer_profile.CUSTOMER_ID))
    IN  [table |-> generate_transactions_table(customer_profile, nb,
                       [day \in 0..(nb - 1) |-> script.draws[day + 1]]),
         np |-> script.np, py |-> script.py]

\* k of the items of a list, drawn without replacement: every item gets the
\* next number of the generator, and the k items with the least numbers (of two
\* items with the same number, the first) are the ones drawn
draw_without_replacement(items, k, state) ==
    LET n == Len(items)
        key(j) == nth_state(state, j)
        before(j) == {i \in 1..n : key(i) < key(j) \/ (key(i) = key(j) /\ i < j)}
    IN  IF k <= 0 THEN [chosen |-> {}, state |-> state]
        ELSE [chosen |-> {items[j] : j \in {i \in 1..n : Cardinality(before(i)) < k}},
              state |-> nth_state(state, n)]

\* The members of a set of numbers in ascending order
SortedSeq(S) ==
    [p \in 1..Cardinality(S) |->
        CHOOSE x \in S : Cardinality({y \in S : y < x}) = p - 1]

\* Series.sample(n=n, random_state=day) on the column 0..nb_values-1: the draw
\* is made with RandomState(day)
sample_random_state(nb_values, n, day) ==
    draw_without_replacement([i \in 1..nb_values |-> i - 1], n,
                             np_random_seed(0, day)).chosen

\* sort_values('TX_DATETIME') as one run of the sort does it: the same rows give
\* the same order (here the rows with equal keys keep their order)
sort_values_run(rows) ==
    LET before(i) ==
            {j \in 1..Len(rows) :
                \/ rows[j].TX_DATETIME < rows[i].TX_DATETIME
                \/ (rows[j].TX_DATETIME = rows[i].TX_DATETIME /\ j < i)}
    IN  [p \in 1..Len(rows) |->
            rows[CHOOSE i \in 1..Len(rows) : Cardinality(before(i)) = p - 1]]

-----------------------------------------------------------------------------
(* Two runs of the script, one after the other: generate_dataset (line     *)
(* 424), then add_frauds on what it returned (line 553).  Each run finds   *)
(* the module-level generators in some state other code left them in.      *)

RerunNbCustomersChoices == {1, 2, 61}
RerunNbTerminalsChoices == {1, 2, 3}
RerunNbDaysChoices == {1, 2, 3}
RerunRadius == {5, 50}
PriorStates == {0, 9}

\* What a run of the script leaves in its variables
Output ==
    [customer_profiles_table |-> customer_profiles_table,
     terminal_profiles_table |-> terminal_profiles_table,
     transactions_df |-> transactions_df,
     error |-> error]

RerunInit ==
    /\ pc = "start"
    /\ n_customers \in RerunNbCustomersChoices
    /\ n_terminals \in RerunNbTerminalsChoices
    /\ nb_days \in RerunNbDaysChoices
    /\ r \in RerunRadius
    /\ customer_profiles_table = <<>>
    /\ terminal_profiles_table = <<>>
    /\ customer_transactions = <<>>
    /\ transactions_df = <<>>
    /\ error = "none"
    /\ loop_day = 0
    /\ compromised_transactions = {}
    /\ nb_frauds_scenario_1 = 0
    /\ nb_frauds_scenario_2 = 0
    /\ nb_frauds_scenario_3 = 0
    /\ history = NoHistory
    /\ np_random \in PriorStates
    /\ py_random \in PriorStates
    /\ run = FirstRun(np_random, py_random)
    /\ first_run = <<>>
    /\ workers = <<>>
    /\ overlapped = FALSE
    /\ direct_call = NoCall
    /\ NoService

\* line 386: generate_customer_profiles_table(n_customers, random_state = 0)
RerunGenerateCustomerProfiles ==
    /\ pc = "start"
    /\ \E np \in {np_random_seed(np_random, 0)} :
          /\ \E draws \in {customer_draws(n_customers, np)} :
                customer_profiles_table' = generate_customer_profiles_table(n_customers, draws)
          /\ np_random' = nth_state(np, 4 * n_customers)
    /\ pc' = "customers"
    /\ UNCHANGED <<n_customers, n_terminals, nb_days, r, terminal_profiles_table,
                   customer_transactions, transactions_df, error, fraud_vars,
                   py_random, run, first_run, workers, overlapped, direct_call, service_vars>>

\* line 388: generate_terminal_profiles_table(n_terminals, random_state = 1)
RerunGenerateTerminalProfiles ==
    /\ pc = "customers"
    /\ \E np \in {np_random_seed(np_random, 1)} :
          /\ \E draws \in {terminal_draws(n_terminals, np)} :
                terminal_profiles_table' = generate_terminal_profiles_table(n_terminals, draws)
          /\ np_random' = nth_state(np, 2 * n_terminals)
    /\ pc' = "terminals"
    /\ UNCHANGED <<n_customers, n_terminals, nb_days, r, customer_profiles_table,
                   customer_transactions, transactions_df, error, fraud_vars,
                   py_random, run, first_run, workers, overlapped, direct_call, service_vars>>

\* line 396: one call of the lambda of groupby('CUSTOMER_ID').apply
RerunGenerateTransactions ==
    /\ pc = "transactions"
    /\ Len(customer_transactions) < n_customers
    /\ \E call \in {call_generate_transactions_table(
                          customer_profiles_table[Len(customer_transactions)],
                          nb_days, np_random, py_random)} :
          /\ customer_transactions' = Append(customer_transactions, call.table)
          /\ np_random' = call.np
          /\ py_random' = call.py
    /\ UNCHANGED <<pc, n_customers, n_terminals, nb_days, r, customer_profiles_table,
                   terminal_profiles_table, transactions_df, error, fraud_vars,
                   run, first_run, workers, overlapped, direct_call, service_vars>>

\* lines 401-408
RerunSortTransactions ==
    /\ pc = "transactions"
    /\ Len(customer_transactions) = n_customers
    /\ \E df \in {concat_tables(customer_transactions)} :
          IF "TX_DATETIME" \in df.columns
          THEN /\ \E sorted \in {sort_values_run(df.rows)} :
                     transactions_df' = reset_index(sorted)
               /\ pc' = "dataset"
               /\ error' = error
          ELSE /\ pc' = "raised"
               /\ error' = "KeyError"
               /\ transactions_df' = transactions_df
    /\ UNCHANGED <<n_customers, n_terminals, nb_days, r, customer_profiles_table,
                   terminal_profiles_table, customer_transactions, fraud_vars, rng_vars, service_vars>>

\* line 553
CallAddFrauds ==
    /\ pc = "dataset"
    /\ pc' = "add_frauds"
    /\ UNCHANGED <<transactions_df, error, gen_vars, fraud_vars, rng_vars, service_vars>>

\* lines 509-515 with the draw of RandomState(day)
RerunScenario2Fraud ==
    /\ pc = "scenario2"
    /\ loop_day < max_day(transactions_df)
    /\ n_terminals >= NbCompromisedTerminals
    /\ \E compromised_terminals \in
              {sample_random_state(n_terminals, NbCompromisedTerminals, loop_day)} :
          Scenario2Mark(compromised_terminals)
    /\ UNCHANGED <<rng_vars, service_vars>>

\* lines 524-536 with the draw of RandomState(day), random.seed(day) and the
\* draw of random.sample
RerunScenario3Amount ==
    /\ pc = "scenario3"
    /\ loop_day < max_day(transactions_df)
    /\ n_customers >= NbCompromisedCustomers
    /\ \E compromised_customers \in
              {sample_random_state(n_customers, NbCompromisedCustomers, loop_day)} :
          \E compromised \in
              {compromised_of_customers(transactions_df, loop_day, compromised_customers)} :
            \E index \in {SortedSeq(compromised)} :
              \E drawn \in {draw_without_replacement(index, Len(index) \div 3,
                                                     random_seed(py_random, loop_day))} :
                  /\ Scenario3Multiply(compromised_customers, drawn.chosen)
                  /\ py_random' = drawn.state
    /\ UNCHANGED <<np_random, run, first_run, workers, overlapped, direct_call, service_vars>>

\* The script is run again, with the generators in some state
SecondRun ==
    /\ pc \in {"returned", "raised"}
    /\ run.nr = 1
    /\ first_run' = [np |-> run.np, py |-> run.py, output |-> Output]
    /\ np_random' \in PriorStates \cup {np_random}
    /\ py_random' \in PriorStates \cup {py_random}
    /\ run' = [nr |-> 2, np |-> np_random', py |-> py_random']
    /\ pc' = "start"
    /\ customer_profiles_table' = <<>>
    /\ terminal_profiles_table' = <<>>
    /\ customer_transactions' = <<>>
    /\ transactions_df' = <<>>
    /\ error' = "none"
    /\ loop_day' = 0
    /\ compromised_transactions' = {}
    /\ nb_frauds_scenario_1' = 0
    /\ nb_frauds_scenario_2' = 0
    /\ nb_frauds_scenario_3' = 0
    /\ history' = NoHistory
    /\ UNCHANGED <<n_customers, n_terminals, nb_days, r, workers, overlapped, direct_call, service_vars>>

RerunNext ==
    \/ RerunGenerateCustomerProfiles
    \/ RerunGenerateTerminalProfiles
    \/ AssociateTerminals
    \/ RerunGenerateTransactions
    \/ RerunSortTransactions
    \/ CallAddFrauds
    \/ InitLabels
    \/ Scenario1Fraud
    \/ Scenario1Tag
    \/ Scenario2Raise
    \/ RerunScenario2Fraud
    \/ Scenario2Tag
    \/ Scenario2End
    \/ Scenario3Raise
    \/ RerunScenario3Amount
    \/ Scenario3Fraud
    \/ Scenario3Tag
    \/ Scenario3End
    \/ SecondRun

SpecRerun == RerunInit /\ [][RerunNext]_vars

-----------------------------------------------------------------------------
(* Properties of two runs *)

\* C6: two runs of generate_dataset then add_frauds with the same arguments and
\* seeds end with the same customer table, terminal table and labelled
\* transaction table (and the same exception, if one ended the run), whatever
\* the states of random and np.random before each run.
C6_RerunIdentical ==
    (run.nr = 2 /\ pc \in {"returned", "raised"}) => Output = first_run.output

\* A second run that returned a table with labels of scenarios 2 and 3, both
\* generators having been in another state before it than before the first run
C6_Witness ==
    /\ run.nr = 2
    /\ pc = "returned"
    /\ first_run.np # run.np
    /\ first_run.py # run.py
    /\ \E i, j \in 1..Len(transactions_df) :
          /\ transactions_df[i].TX_FRAUD_SCENARIO = 2
          /\ transactions_df[j].TX_FRAUD_SCENARIO = 3

-----------------------------------------------------------------------------
(* Calls of generate_transactions_table in workers that run at the same    *)
(* time in one process: one worker per customer, every worker drawing from *)
(* the module-level generators random and np.random.  A step of a worker   *)
(* is one call of a generator.                                             *)

WorkersNbCustomersChoices == {2}
WorkersNbTerminalsChoices == {1, 3}
WorkersNbDaysChoices == {1, 2}
WorkersRadius == {5, 50}

\* A worker that has not started its call
IdleWorker ==
    [pc |-> "idle", found_np |-> 0, found_py |-> 0, day |-> 0, nb_tx |-> 0, tx |-> 0,
     time_tx |-> 0, normal |-> 0, amount |-> 0, customer_transactions |-> <<>>,
     table |-> <<>>]

WorkersInit ==
    /\ pc = "workers"
    /\ n_customers \in WorkersNbCustomersChoices
    /\ n_terminals \in WorkersNbTerminalsChoices
    /\ nb_days \in WorkersNbDaysChoices
    /\ r \in WorkersRadius
    /\ terminal_profiles_table =
          generate_terminal_profiles_table(
              n_terminals, terminal_draws(n_terminals, np_random_seed(0, 1)))
    /\ customer_profiles_table =
          with_available_terminals(
              generate_customer_profiles_table(
                  n_customers, customer_draws(n_customers, np_random_seed(0, 0))),
              terminal_profiles_table, r)
    /\ customer_transactions = <<>>
    /\ transactions_df = <<>>
    /\ error = "none"
    /\ loop_day = 0
    /\ compromised_transactions = {}
    /\ nb_frauds_scenario_1 = 0
    /\ nb_frauds_scenario_2 = 0
    /\ nb_frauds_scenario_3 = 0
    /\ history = NoHistory
    /\ np_random \in PriorStates
    /\ py_random \in PriorStates
    /\ run = FirstRun(np_random, py_random)
    /\ first_run = <<>>
    /\ workers = [customer_id \in 0..(n_customers - 1) |-> IdleWorker]
    /\ overlapped = FALSE
    /\ direct_call = NoCall
    /\ NoService

\* The call of the worker is in progress
Busy(customer_id) == workers[customer_id].pc \notin {"idle", "done"}

\* The worker makes a step: its record changes, and the step falls into the
\* call of another worker if one is in progress
WorkerStep(customer_id, worker) ==
    /\ workers' = [workers EXCEPT ![customer_id] = worker]
    /\ overlapped' =
          (overlapped \/ \E other \in DOMAIN workers : other # customer_id /\ Busy(other))
    /\ UNCHANGED <<pc, transactions_df, error, gen_vars, fraud_vars, run, first_run, direct_call, service_vars>>

\* The end of one pass of `for tx in range(nb_tx)`: the next pass, or the next day
next_tx(worker) ==
    IF worker.tx + 1 < worker.nb_tx
    THEN [worker EXCEPT !.pc = "time", !.tx = @ + 1, !.time_tx = 0, !.normal = 0,
                        !.amount = 0]
    ELSE [worker EXCEPT !.pc = "day", !.day = @ + 1, !.tx = 0, !.nb_tx = 0,
                        !.time_tx = 0, !.normal = 0, !.amount = 0]

\* line 294 (the worker notes the states it finds the generators in)
WorkerSeedRandom(customer_id) ==
    /\ workers[customer_id].pc = "idle"
    /\ py_random' = random_seed(py_random, customer_profiles_table[customer_id].CUSTOMER_ID)
    /\ np_random' = np_random
    /\ WorkerStep(customer_id,
                  [workers[customer_id] EXCEPT !.pc = "seed_np", !.found_np = np_random,
                                               !.found_py = py_random])

\* line 295
WorkerSeedNp(customer_id) ==
    /\ workers[customer_id].pc = "seed_np"
    /\ np_random' = np_random_seed(np_random, customer_profiles_table[customer_id].CUSTOMER_ID)
    /\ py_random' = py_random
    /\ WorkerStep(customer_id, [workers[customer_id] EXCEPT !.pc = "day"])

\* lines 298-306: the Poisson draw of a day
WorkerPoisson(customer_id) ==
    /\ workers[customer_id].pc = "day"
    /\ workers[customer_id].day < nb_days
    /\ np_random' = next_state(np_random)
    /\ py_random' = py_random
    /\ LET nb_tx == np_random_poisson(customer_profiles_table[customer_id].mean_nb_tx_per_day,
                                      quantile(np_random'))
       IN  WorkerStep(customer_id,
                      IF nb_tx > 0
                      THEN [workers[customer_id] EXCEPT !.pc = "time", !.nb_tx = nb_tx,
                                                        !.tx = 0]
                      ELSE [workers[customer_id] EXCEPT !.day = @ + 1])

\* lines 310-313: the draw of the time, kept or discarded
WorkerTime(customer_id) ==
    /\ workers[customer_id].pc = "time"
    /\ np_random' = next_state(np_random)
    /\ py_random' = py_random
    /\ LET time_tx == IntTrunc(np_random_normal(SecondsPerDay, 40000, quantile(np_random')))
       IN  WorkerStep(customer_id,
                      IF time_kept(time_tx)
                      THEN [workers[customer_id] EXCEPT !.pc = "amount", !.time_tx = time_tx]
                      ELSE next_tx(workers[customer_id]))

\* lines 316-322: the normal draw of the amount
WorkerAmount(customer_id) ==
    /\ workers[customer_id].pc = "amount"
    /\ np_random' = next_state(np_random)
    /\ py_random' = py_random
    /\ LET normal == np_random_normal(customer_profiles_table[customer_id].mean_amount * 10,
                                      customer_profiles_table[customer_id].std_amount * 10,
                                      quantile(np_random'))
       IN  WorkerStep(customer_id,
                      IF normal < 0
                      THEN [workers[customer_id] EXCEPT !.pc = "uniform", !.normal = normal]
                      ELSE [workers[customer_id] EXCEPT !.pc = "choice", !.normal = normal,
                                                        !.amount = draw_amount(normal, 0)])

\* lines 320-322: the uniform draw that replaces a negative amount
WorkerUniform(customer_id) ==
    /\ workers[customer_id].pc = "uniform"
    /\ np_random' = next_state(np_random)
    /\ py_random' = py_random
    /\ LET uniform == np_random_uniform(0, customer_profiles_table[customer_id].mean_amount
                                               * 2 * 10, quantile(np_random'))
       IN  WorkerStep(customer_id,
                      [workers[customer_id] EXCEPT
                          !.pc = "choice",
                          !.amount = draw_amount(workers[customer_id].normal, uniform)])

\* lines 324-330: the draw of the terminal, and the row
WorkerChoice(customer_id) ==
    /\ workers[customer_id].pc = "choice"
    /\ np_random' = np_random
    /\ LET customer_profile == customer_profiles_table[customer_id]
           worker == workers[customer_id]
           available_terminals == customer_profile.available_terminals
       IN  IF Len(available_terminals) > 0
           THEN /\ py_random' = next_state(py_random)
                /\ WorkerStep(customer_id,
                       next_tx([worker EXCEPT !.customer_transactions =
                           Append(@, [TX_TIME_SECONDS |->
                                          worker.time_tx + worker.day * SecondsPerDay,
                                      TX_TIME_DAYS |-> worker.day,
                                      CUSTOMER_ID |-> customer_profile.CUSTOMER_ID,
                                      TERMINAL_ID |->
                                          random_choice(available_terminals,
                                              randbelow(py_random', Len(available_terminals))),
                                      TX_AMOUNT |-> worker.amount])]))
           ELSE /\ py_random' = py_random
                /\ WorkerStep(customer_id, next_tx(worker))

\* lines 332-338
WorkerReturn(customer_id) ==
    /\ workers[customer_id].pc = "day"
    /\ workers[customer_id].day >= nb_days
    /\ UNCHANGED <<np_random, py_random>>
    /\ WorkerStep(customer_id,
                  [workers[customer_id] EXCEPT
                      !.pc = "done",
                      !.table = transactions_table(workers[customer_id].customer_transactions)])

WorkersNext ==
    \/ \E customer_id \in DOMAIN workers : WorkerSeedRandom(customer_id)
    \/ \E customer_id \in DOMAIN workers : WorkerSeedNp(customer_id)
    \/ \E customer_id \in DOMAIN workers : WorkerPoisson(customer_id)
    \/ \E customer_id \in DOMAIN workers : WorkerTime(customer_id)
    \/ \E customer_id \in DOMAIN workers : WorkerAmount(customer_id)
    \/ \E customer_id \in DOMAIN workers : WorkerUniform(customer_id)
    \/ \E customer_id \in DOMAIN workers : WorkerChoice(customer_id)
    \/ \E customer_id \in DOMAIN workers : WorkerReturn(customer_id)

SpecWorkers == WorkersInit /\ [][WorkersNext]_vars

-----------------------------------------------------------------------------
(* Properties of the workers *)

\* The table of the customer when its call runs with no other call in progress
Alone(customer_id) ==
    call_generate_transactions_table(customer_profiles_table[customer_id], nb_days, 0, 0).table

\* C7, for every interleaving: whatever the interleaving of the draws of the
\* workers, the table a worker returns for its customer is the one the call
\* gives when the customers are processed one after another.
C7_AnyInterleaving ==
    \A customer_id \in DOMAIN workers :
        workers[customer_id].pc = "done" =>
            workers[customer_id].table = Alone(customer_id)

\* C7, for calls that do not overlap: a call that no step of another call falls
\* into returns the table of its customer alone, whatever the states the
\* generators were in before the call and whatever the order of the calls.
C7_SeededCallsInAnyOrder ==
    \A customer_id \in DOMAIN workers :
        (workers[customer_id].pc = "done" /\ ~overlapped) =>
            workers[customer_id].table = Alone(customer_id)

\* Both calls done one after the other, each with rows, the call for customer 0
\* having found the generators as the call for customer 1 left them
C7_Witness ==
    /\ ~overlapped
    /\ \A customer_id \in DOMAIN workers :
          /\ workers[customer_id].pc = "done"
          /\ workers[customer_id].table.rows # <<>>
    /\ workers[0].found_np # workers[1].found_np
    /\ workers[0].found_np # np_random_seed(0, 0)
    /\ workers[1].found_np = run.np

-----------------------------------------------------------------------------
(* Calls of the generators on their own, with any argument: a count or a   *)
(* number of days may be zero or negative.  The call of                    *)
(* generate_transactions_table is followed statement by statement, its     *)
(* draws enumerated.                                                       *)

CallCounts == {-1, 0, 1, 2}
CallNbDays == {-1, 0, 1, 2}
CallTimeDraws == {-1, 1, 2, 172799, 172800}
CallAvailableTerminals == {<<>>, <<0>>, <<0, 1>>}

\* The customer profiles a call of generate_transactions_table may be given
CallProfiles ==
    {[CUSTOMER_ID |-> 0, x_y_customer |-> <<0, 0>>, mean_amount |-> mean,
      std_amount |-> mean \div 2, mean_nb_tx_per_day |-> rate,
      available_terminals |-> available, nb_terminals |-> Len(available)] :
        mean \in MeanAmounts, rate \in MeanNbTxPerDay, available \in CallAvailableTerminals}

has_terminals_always(customer_profile) == TRUE

\* `if len(customer_profile.available_terminals)>0`
has_terminals(customer_profile) == Len(customer_profile.available_terminals) > 0

\* The call at line 292: nothing drawn, no row.  nb_txs are the Poisson draws
\* made so far, one per day, and time_txs the values of time_tx drawn so far
NewCall(customer_profile) ==
    [customer_profile |-> customer_profile, day |-> 0, nb_tx |-> 0, tx |-> 0,
     time_tx |-> 0, amount |-> 0, customer_transactions |-> <<>>,
     nb_txs |-> <<>>, time_txs |-> <<>>]

CallsInit ==
    /\ pc = "call"
    /\ n_customers \in CallCounts
    /\ n_terminals \in CallCounts
    /\ nb_days \in CallNbDays
    /\ r = 0
    /\ customer_profiles_table = <<>>
    /\ terminal_profiles_table = <<>>
    /\ customer_transactions = <<>>
    /\ transactions_df = <<>>
    /\ error = "none"
    /\ loop_day = 0
    /\ compromised_transactions = {}
    /\ nb_frauds_scenario_1 = 0
    /\ nb_frauds_scenario_2 = 0
    /\ nb_frauds_scenario_3 = 0
    /\ history = NoHistory
    /\ np_random = 0
    /\ py_random = 0
    /\ run = FirstRun(0, 0)
    /\ first_run = <<>>
    /\ workers = <<>>
    /\ overlapped = FALSE
    /\ direct_call \in {NewCall(customer_profile) : customer_profile \in CallProfiles}
    /\ NoService

\* generate_customer_profiles_table(n_customers)
CallGenerateCustomerProfiles ==
    /\ pc = "call"
    /\ \E draws \in [0..(n_customers - 1) -> CustomerProfiles] :
          customer_profiles_table' = generate_customer_profiles_table(n_customers, draws)
    /\ pc' = "customers_returned"
    /\ UNCHANGED <<n_customers, n_terminals, nb_days, r, terminal_profiles_table,
                   customer_transactions, transactions_df, error, fraud_vars, rng_vars, service_vars>>

\* generate_terminal_profiles_table(n_terminals)
CallGenerateTerminalProfiles ==
    /\ pc = "call"
    /\ \E draws \in [0..(n_terminals - 1) -> TerminalPositions] :
          terminal_profiles_table' = generate_terminal_profiles_table(n_terminals, draws)
    /\ pc' = "terminals_returned"
    /\ UNCHANGED <<n_customers, n_terminals, nb_days, r, customer_profiles_table,
                   customer_transactions, transactions_df, error, fraud_vars, rng_vars, service_vars>>

\* A statement of generate_transactions_table(customer_profile, nb_days=nb_days):
\* it leaves the call in the state after and touches nothing else
CallStatement(after) ==
    /\ direct_call' = after
    /\ UNCHANGED <<n_customers, n_terminals, nb_days, r, customer_profiles_table,
                   terminal_profiles_table, transactions_df, fraud_vars, np_random,
                   py_random, run, first_run, workers, overlapped, service_vars>>

\* The end of the body of `for tx in range(nb_tx)`: the next tx, or the next day
CallNextTx(after) ==
    IF after.tx + 1 < after.nb_tx
    THEN /\ pc' = "tx"
         /\ CallStatement([after EXCEPT !.tx = @ + 1])
    ELSE /\ pc' = "day"
         /\ CallStatement([after EXCEPT !.day = @ + 1])

\* lines 292-295
CallSeed ==
    /\ pc = "call"
    /\ pc' = "day"
    /\ CallStatement(direct_call)
    /\ UNCHANGED <<customer_transactions, error>>

\* lines 298-304: the Poisson draw of the day
CallPoisson ==
    /\ pc = "day"
    /\ direct_call.day < nb_days
    /\ \E nb_tx \in PoissonDraws(direct_call.customer_profile.mean_nb_tx_per_day) :
          /\ Len(direct_call.time_txs) + nb_tx <= MaxTx
          /\ IF nb_tx > 0
             THEN /\ pc' = "tx"
                  /\ CallStatement([direct_call EXCEPT
                                       !.nb_tx = nb_tx, !.tx = 0,
                                       !.nb_txs = Append(@, nb_tx)])
             ELSE /\ pc' = "day"
                  /\ CallStatement([direct_call EXCEPT
                                       !.nb_tx = nb_tx, !.day = @ + 1,
                                       !.nb_txs = Append(@, nb_tx)])
    /\ UNCHANGED <<customer_transactions, error>>

\* lines 310-313: the draw of the time, kept or discarded
CallTime ==
    /\ pc = "tx"
    /\ \E time \in CallTimeDraws :
          \E after \in {[direct_call EXCEPT
                            !.time_tx = IntTrunc(time),
                            !.time_txs = Append(@, [day |-> direct_call.day,
                                                    time_tx |-> IntTrunc(time)])]} :
              IF time_kept(after.time_tx)
              THEN /\ pc' = "amount"
                   /\ CallStatement(after)
              ELSE CallNextTx(after)
    /\ UNCHANGED <<customer_transactions, error>>

\* lines 316-324: the draw of the amount
CallAmount ==
    /\ pc = "amount"
    /\ \E normal \in {-15, direct_call.customer_profile.mean_amount * 10 + 5} :
          \E uniform \in IF normal < 0
                         THEN {0, direct_call.customer_profile.mean_amount * 2 * 10 - 1}
                         ELSE {0} :
              \E after \in {[direct_call EXCEPT !.amount = draw_amount(normal, uniform)]} :
                  IF has_terminals(direct_call.customer_profile)
                  THEN /\ pc' = "choice"
                       /\ CallStatement(after)
                  ELSE CallNextTx(after)
    /\ UNCHANGED <<customer_transactions, error>>

\* lines 326-330: the choice of the terminal (random.choice raises IndexError on
\* an empty list) and the row appended
CallChoice ==
    /\ pc = "choice"
    /\ IF Len(direct_call.customer_profile.available_terminals) = 0
       THEN /\ pc' = "raised"
            /\ error' = "IndexError"
            /\ CallStatement(direct_call)
       ELSE /\ \E k \in 0..(Len(direct_call.customer_profile.available_terminals) - 1) :
                  CallNextTx([direct_call EXCEPT
                      !.customer_transactions =
                          Append(@, [TX_TIME_SECONDS |->
                                         direct_call.time_tx + direct_call.day * SecondsPerDay,
                                     TX_TIME_DAYS |-> direct_call.day,
                                     CUSTOMER_ID |-> direct_call.customer_profile.CUSTOMER_ID,
                                     TERMINAL_ID |->
                                         random_choice(
                                             direct_call.customer_profile.available_terminals, k),
                                     TX_AMOUNT |-> direct_call.amount])])
            /\ error' = error
    /\ UNCHANGED customer_transactions

\* lines 332-338
CallReturn ==
    /\ pc = "day"
    /\ direct_call.day >= nb_days
    /\ customer_transactions' = <<transactions_table(direct_call.customer_transactions)>>
    /\ pc' = "transactions_returned"
    /\ CallStatement(direct_call)
    /\ UNCHANGED error

CallsNext ==
    \/ CallGenerateCustomerProfiles
    \/ CallGenerateTerminalProfiles
    \/ CallSeed
    \/ CallPoisson
    \/ CallTime
    \/ CallAmount
    \/ CallChoice
    \/ CallReturn

SpecCalls == CallsInit /\ [][CallsNext]_vars

-----------------------------------------------------------------------------
(* Properties of the calls *)

\* C14: a call of generate_customer_profiles_table or
\* generate_terminal_profiles_table with a count of zero or less, or of
\* generate_transactions_table with a number of days of zero or less, does not
\* return a table: it ends in an error.
C14_NonPositiveSignaled ==
    /\ (pc = "customers_returned" /\ n_customers <= 0) => error # "none"
    /\ (pc = "terminals_returned" /\ n_terminals <= 0) => error # "none"
    /\ (pc = "transactions_returned" /\ nb_days <= 0) => error # "none"

\* C15: a call of generate_transactions_table for a customer whose
\* available_terminals list is empty raises nothing, appends no row whatever it
\* draws, and returns a table without a row, for every nb_days.
C15_NoTerminalsNoTransactions ==
    Len(direct_call.customer_profile.available_terminals) = 0 =>
        /\ error = "none"
        /\ pc # "raised"
        /\ direct_call.customer_transactions = <<>>
        /\ pc = "transactions_returned" => customer_transactions[1].rows = <<>>

\* A call returned for a customer without a terminal, after a time that was kept
C15_Witness ==
    /\ pc = "transactions_returned"
    /\ Len(direct_call.customer_profile.available_terminals) = 0
    /\ customer_transactions[1].rows = <<>>
    /\ \E i \in 1..Len(direct_call.time_txs) :
          /\ direct_call.time_txs[i].time_tx >= 1
          /\ direct_call.time_txs[i].time_tx <= 86399

\* No transaction of the call is half made
Settled == pc \in {"day", "tx", "transactions_returned", "customers_returned",
                   "terminals_returned", "call"}

\* The rows appended so far are those of the values of time_tx in kept, in the
\* order of the draws: TX_TIME_SECONDS = day*86400 + time_tx, TX_TIME_DAYS = day
RowsOfKept(kept) ==
    /\ Len(direct_call.customer_transactions) = Len(kept)
    /\ \A i \in 1..Len(kept) :
          /\ direct_call.customer_transactions[i].TX_TIME_SECONDS
                 = kept[i].day * 86400 + kept[i].time_tx
          /\ direct_call.customer_transactions[i].TX_TIME_DAYS = kept[i].day

\* The rows of a day are no more than the Poisson draw of the day
NoMoreThanPoisson ==
    \A d \in 1..Len(direct_call.nb_txs) :
        Cardinality({i \in 1..Len(direct_call.customer_transactions) :
                        direct_call.customer_transactions[i].TX_TIME_DAYS = d - 1})
            <= direct_call.nb_txs[d]

\* The table returned holds the rows appended
ReturnedRows ==
    pc = "transactions_returned" =>
        /\ Len(customer_transactions[1].rows) = Len(direct_call.customer_transactions)
        /\ \A i \in 1..Len(direct_call.customer_transactions) :
              /\ customer_transactions[1].rows[i].TX_TIME_SECONDS
                     = direct_call.customer_transactions[i].TX_TIME_SECONDS
              /\ customer_transactions[1].rows[i].TX_TIME_DAYS
                     = direct_call.customer_transactions[i].TX_TIME_DAYS

\* C19, with the offset 0 kept: for a customer with a terminal, a draw gives a
\* row exactly when its time_tx lies in [0, 86400); the rows of a day are no more
\* than its Poisson draw, and a row has TX_TIME_SECONDS = day*86400 + time_tx
\* and TX_TIME_DAYS = day.
C19_KeptFromZero ==
    (Settled /\ Len(direct_call.customer_profile.available_terminals) > 0) =>
        LET InDay(d) == 0 <= d.time_tx /\ d.time_tx < 86400
        IN  /\ RowsOfKept(SelectSeq(direct_call.time_txs, InDay))
            /\ NoMoreThanPoisson
            /\ ReturnedRows

\* C19, with the offset 0 discarded: for a customer with a terminal, a draw gives
\* a row exactly when its time_tx lies in [1, 86400), and no other draw replaces
\* a draw discarded; the rows of a day are no more than its Poisson draw, and a
\* row has TX_TIME_SECONDS = day*86400 + time_tx and TX_TIME_DAYS = day.
C19_KeptAboveZero ==
    (Settled /\ Len(direct_call.customer_profile.available_terminals) > 0) =>
        LET InDay(d) == 1 <= d.time_tx /\ d.time_tx < 86400
        IN  /\ RowsOfKept(SelectSeq(direct_call.time_txs, InDay))
            /\ NoMoreThanPoisson
            /\ ReturnedRows

\* A call returned after a time_tx of 0 (discarded) and a time_tx of 1 (kept) on
\* day 1: one row for a Poisson draw of 2
C19_Witness ==
    /\ pc = "transactions_returned"
    /\ Len(customer_transactions[1].rows) = 1
    /\ customer_transactions[1].rows[1].TX_TIME_SECONDS = 86401
    /\ direct_call.nb_txs = <<0, 2>>
    /\ \E i \in 1..Len(direct_call.time_txs) : direct_call.time_txs[i].time_tx = 0
-----------------------------------------------------------------------------
(* The social-network service (src/workshop/service.py) and the walker      *)
(* serf_social_net (src/04_profile_on_the_fly/social_net.py).  The service  *)
(* answers requests once its startup handler populate_users has returned.   *)
(* A list of ids goes through JSON unchanged.                               *)

\* The number of users populate_users creates: range(100) in the source, cut
\* down here
NbUsers == 2

\* random.randint(1, 7)
MinFriendDraws == 1
MaxFriendDraws == 7

\* user_id = 1 at the start of serf_social_net
FirstUser == 1

\* status_code of the HTTPException the handlers raise
NotFound == 404

\* User(id, name)
User(id, name) == [id |-> id, name |-> name, friends |-> <<>>]

\* friend_id in self.friends
in_friends(self, friend_id) ==
    \E i \in 1..Len(self.friends) : self.friends[i] = friend_id

add_friend_always(self, friend_id) ==
    [self EXCEPT !.friends = Append(@, friend_id)]

\* User.add_friend
add_friend(self, friend_id) ==
    IF ~in_friends(self, friend_id)
    THEN [self EXCEPT !.friends = Append(@, friend_id)]
    ELSE self

\* users[key] = value
dict_set(dict, key, value) ==
    [k \in DOMAIN dict \cup {key} |-> IF k = key THEN value ELSE dict[k]]

\* len(users)
dict_len(dict) == Cardinality(DOMAIN dict)

\* The indices random.choice may pick in a sequence or dict of n items
choice_indices(n) == 0..(n - 1)

\* The handler of /users/{user_id}
user(user_id) ==
    IF user_id \notin DOMAIN users
    THEN [status_code |-> NotFound]
    ELSE [status_code |-> 200,
          json |-> [user_id |-> user_id, name |-> users[user_id].name]]

\* The handler of /friends/{user_id}
friends(user_id) ==
    IF user_id \notin DOMAIN users
    THEN [status_code |-> NotFound]
    ELSE [status_code |-> 200, json |-> users[user_id].friends]

ServiceInit ==
    /\ pc = "service"
    /\ n_customers = 0
    /\ n_terminals = 0
    /\ nb_days = 0
    /\ r = 0
    /\ customer_profiles_table = <<>>
    /\ terminal_profiles_table = <<>>
    /\ customer_transactions = <<>>
    /\ transactions_df = <<>>
    /\ error = "none"
    /\ loop_day = 0
    /\ compromised_transactions = {}
    /\ nb_frauds_scenario_1 = 0
    /\ nb_frauds_scenario_2 = 0
    /\ nb_frauds_scenario_3 = 0
    /\ history = NoHistory
    /\ np_random = 0
    /\ py_random = 0
    /\ run = FirstRun(0, 0)
    /\ first_run = <<>>
    /\ workers = <<>>
    /\ overlapped = FALSE
    /\ direct_call = NoCall
    /\ users = <<>>
    /\ startup = [pc |-> "create", i |-> 0, user_id |-> 0, n |-> 0, k |-> 0]
    /\ walker = [pc |-> "get_user_name", user_id |-> FirstUser, name |-> "",
                 friends |-> <<>>]

ServiceUnchanged ==
    UNCHANGED <<pc, transactions_df, error, gen_vars, fraud_vars, rng_vars>>

\* populate_users, one iteration of `for i in range(100)`
PopulateCreate ==
    /\ startup.pc = "create"
    /\ IF startup.i < NbUsers
       THEN /\ users' = dict_set(users, startup.i, User(startup.i, "John"))
            /\ startup' = [startup EXCEPT !.i = @ + 1]
       ELSE /\ users' = users
            /\ startup' = [startup EXCEPT !.pc = "randint", !.user_id = 0]
    /\ UNCHANGED walker
    /\ ServiceUnchanged

\* populate_users, `for user_id in users.keys()` and random.randint(1, 7): the
\* keys come in the order of insertion
PopulateRandint ==
    /\ startup.pc = "randint"
    /\ IF startup.user_id \in DOMAIN users
       THEN \E n \in MinFriendDraws..MaxFriendDraws :
                startup' = [startup EXCEPT !.pc = "add_friend", !.n = n, !.k = 0]
       ELSE startup' = [startup EXCEPT !.pc = "done"]
    /\ UNCHANGED <<users, walker>>
    /\ ServiceUnchanged

\* populate_users, one iteration of `for _ in range(...)`:
\* users[user_id].add_friend(random.choice(users).id), where random.choice
\* reads users[i] for an index i below len(users)
PopulateAddFriend ==
    /\ startup.pc = "add_friend"
    /\ IF startup.k < startup.n
       THEN \E i \in choice_indices(dict_len(users)) :
                IF i \in DOMAIN users
                THEN /\ users' = [users EXCEPT ![startup.user_id] =
                                      add_friend(@, users[i].id)]
                     /\ startup' = [startup EXCEPT !.k = @ + 1]
                ELSE /\ users' = users
                     /\ startup' = [startup EXCEPT !.pc = "KeyError"]
       ELSE /\ users' = users
            /\ startup' = [startup EXCEPT !.pc = "randint", !.user_id = @ + 1]
    /\ UNCHANGED walker
    /\ ServiceUnchanged

\* serf_social_net, name = get_user_name(user_id): raise_for_status raises on
\* the 404
GetUserName ==
    /\ startup.pc = "done"
    /\ walker.pc = "get_user_name"
    /\ \E response \in {user(walker.user_id)} :
          walker' = IF response.status_code = NotFound
                    THEN [walker EXCEPT !.pc = "HTTPError"]
                    ELSE [walker EXCEPT !.pc = "get_user_friends",
                                        !.name = response.json.name]
    /\ UNCHANGED <<users, startup>>
    /\ ServiceUnchanged

\* serf_social_net, friends = get_user_friends(user_id)
GetUserFriends ==
    /\ startup.pc = "done"
    /\ walker.pc = "get_user_friends"
    /\ \E response \in {friends(walker.user_id)} :
          walker' = IF response.status_code = NotFound
                    THEN [walker EXCEPT !.pc = "HTTPError"]
                    ELSE [walker EXCEPT !.pc = "choice", !.friends = response.json]
    /\ UNCHANGED <<users, startup>>
    /\ ServiceUnchanged

\* serf_social_net, user_id = random.choice(friends): IndexError on an empty list
WalkerChoice ==
    /\ walker.pc = "choice"
    /\ IF walker.friends = <<>>
       THEN walker' = [walker EXCEPT !.pc = "IndexError"]
       ELSE \E i \in choice_indices(Len(walker.friends)) :
                walker' = [walker EXCEPT !.pc = "get_user_name",
                                         !.user_id = random_choice(walker.friends, i)]
    /\ UNCHANGED <<users, startup>>
    /\ ServiceUnchanged

ServiceNext ==
    \/ PopulateCreate
    \/ PopulateRandint
    \/ PopulateAddFriend
    \/ GetUserName
    \/ GetUserFriends
    \/ WalkerChoice

SpecService == ServiceInit /\ [][ServiceNext]_vars

\* The list has no id twice
NoDuplicate(list) ==
    \A i, j \in 1..Len(list) : list[i] = list[j] => i = j

\* C23: once populate_users has returned, the friends list of every user holds
\* between 1 and 7 ids, none of them twice, all of them ids of users; while
\* populate_users runs a list holds no more ids than add_friend was called for
\* it, and that is at most 7 times; and the walker serf_social_net only requests
\* users that exist, so that no request of it is answered 404, and never chooses
\* in an empty list.
C23_FriendsAndWalker ==
    /\ startup.pc # "KeyError"
    /\ startup.pc = "add_friend" =>
          /\ Len(users[startup.user_id].friends) <= startup.k
          /\ startup.k <= startup.n
          /\ startup.n <= MaxFriendDraws
    /\ startup.pc = "done" =>
          /\ DOMAIN users = 0..(NbUsers - 1)
          /\ \A u \in DOMAIN users :
                /\ users[u].id = u
                /\ Len(users[u].friends) >= 1
                /\ Len(users[u].friends) <= 7
                /\ NoDuplicate(users[u].friends)
                /\ \A i \in 1..Len(users[u].friends) :
                      users[u].friends[i] \in DOMAIN users
          /\ walker.user_id \in DOMAIN users
          /\ user(walker.user_id).status_code # NotFound
          /\ friends(walker.user_id).status_code # NotFound
          /\ walker.pc \notin {"HTTPError", "IndexError"}
          /\ walker.pc = "choice" => walker.friends # <<>>

\* The service has started with a call of add_friend that found the id in the
\* list of the last user, a user who is their own friend and a list of more than
\* one id; the walker has moved from user 1 to user 0 and chooses in its list
C23_Witness ==
    /\ startup.pc = "done"
    /\ Len(users[NbUsers - 1].friends) < startup.n
    /\ \E u \in DOMAIN users : in_friends(users[u], u)
    /\ \E u \in DOMAIN users : Len(users[u].friends) > 1
    /\ walker.pc = "choice"
    /\ walker.user_id = 0
    /\ walker.friends = users[0].friends
====
